---------------------------- MODULE Spec2Model ----------------------------
(***************************************************************************)
(* camcap: a V4L2 capture session (src/src/capture.cpp) and a DRM/KMS      *)
(* display session (src/src/display.cpp) driven by the scheduling loop of  *)
(* src/src/main.cpp.                                                       *)
(*                                                                         *)
(* The Display object is the record disp, the DRM device it talks to is    *)
(* the record drm.  Every helper of display.cpp is an operator from a      *)
(* "run" [d, k, reqs, ret] (object, kernel, kernel requests issued so far  *)
(* by the running public call, return value) to a run; the kernel's        *)
(* answer to each request is an argument, chosen by the calling action.    *)
(***************************************************************************)
EXTENDS Integers, Sequences, FiniteSets, TLC

VARIABLES
    disp,       \* the Display object's members
    drm,        \* the DRM device: framebuffers, commits in flight, event queue
    d_last,     \* the last step of the display side: which call, its return
                \* value, its trace, and the flag and the number of
                \* outstanding commits it started from
    pc,         \* position of main(); "api" when the caller is arbitrary
    cap,        \* the Capture object's members and its config
    v4l,        \* the capture device: live mappings, queued buffers, streaming
    cpc,        \* position inside Capture::start(); "idle" outside it
    c_run,      \* the running (or last) start(): its requests, its return
                \* value, the step that failed, the kernel's last answers
    fs,         \* checkFormatSize: its locals and what the device enumerated
    os,         \* the process: its open descriptors, the close calls made,
                \* and the life of a Capture and of a Display session
    xio,        \* a call of xioctl: its request, where it stands, the results
                \* of the ioctl calls it made, its return value
    kms         \* a Display on a card: what the card answers about its CRTCs
                \* and planes, the members findCrtc and findPlane write, the
                \* handles held, and the ids left by each call

dvars == <<disp, drm, d_last, pc>>

cvars == <<cap, v4l, cpc, c_run, fs>>

ovars == <<os, xio, kms>>

vars == <<disp, drm, d_last, pc, cap, v4l, cpc, c_run, fs, os, xio, kms>>

(***************************************************************************)
(* Bounds of the model.                                                    *)
(***************************************************************************)
\* commits the kernel accepts over one run (caps m_frame.count)
MaxFrames == 4
\* framebuffers the kernel lets the session register at the same time
MaxFbs == 2
\* largest step of the kernel clock between two completions
MaxDt == 2
\* calls of start() on one capture session
MaxStarts == 2

(***************************************************************************)
(* Kernel-side values.                                                     *)
(***************************************************************************)
\* the id get_drmModePropertyId answers for the plane's FB_ID property
PropFbId == 7

\* drmModeAddFB2 hands out the lowest free object id
FreshFb(k) == CHOOSE i \in 1..(MaxFbs + 1) : i \notin k.fbs /\ \A j \in 1..(i - 1) : j \in k.fbs

\* accepted commits whose completion callback has not run yet
Outstanding(k) == k.inflight + Len(k.events)

\* the kernel can still accept a commit (model cap on the number of flips)
CanAccept(d, k) == d.m_frame.count + Outstanding(k) < MaxFrames

Run(d, k) == [d |-> d, k |-> k, reqs |-> <<>>, ret |-> TRUE]

Issue(s, r) == [s EXCEPT !.reqs = Append(@, r)]

Return(s, v) == [s EXCEPT !.ret = v]

\* entries of a run's trace: a commit handed to drmModeAtomicCommit, a
\* framebuffer request, a completion callback the kernel dispatched
CommitReq(nonblock, fb, ok) == [req |-> "commit", nonblock |-> nonblock, fb |-> fb, ok |-> ok]

FbReq(name, fb) == [req |-> name, nonblock |-> FALSE, fb |-> fb, ok |-> TRUE]

Callback == [req |-> "eventCb", nonblock |-> FALSE, fb |-> 0, ok |-> TRUE]

\* a library call of the run that is neither: its name and whether it
\* succeeded
Event(name, ok) == [req |-> name, nonblock |-> FALSE, fb |-> 0, ok |-> ok]

HasReq(reqs, name) == \E i \in 1..Len(reqs) : reqs[i].req = name

(***************************************************************************)
(* Display::Display (display.cpp 32-109): the state a successfully         *)
(* constructed session starts in: it holds the descriptor open() returned, *)
(* the resource list and the GBM device; every other member keeps its      *)
(* in-class initializer of display.hpp 50-74.                              *)
(***************************************************************************)
\* the descriptors open() can hand to the constructor: the lowest free one,
\* 0 in a process started with its standard input closed
DrmFds == {0, 3}

DisplayInit(testing, camIsNV12, fd) ==
    [ m_drmFd              |-> fd,
      m_drmRes             |-> TRUE,
      m_gbmDev             |-> TRUE,
      m_drmConnector       |-> FALSE,
      m_drmEncoder         |-> FALSE,
      m_drmCrtc            |-> FALSE,
      m_drmPrimaryPlane    |-> FALSE,
      m_primaryPlaneId     |-> 0,
      m_modePropFb_id      |-> 0,
      m_testPatern_FbId    |-> 0,
      m_splashscreen_FbId  |-> 0,
      m_frame              |-> [count |-> 0, sec |-> 0, usec |-> 0, flip_pending |-> FALSE],
      testing_display      |-> testing,
      cam_is_nv12          |-> camIsNV12,
      m_display_initialized |-> FALSE ]

\* the completion callbacks run so far: how many, the timestamp of the last
\* event and of the one before it, and the old_t operands of the last
\* callback's refresh rate (<<>> when it computed none)
NoCallbacks == [n |-> 0, last |-> <<>>, prev |-> <<>>, basis |-> <<>>]

\* maps counts the CPU mappings of dumb buffers the process holds
DrmInit ==
    [ fbs |-> {}, inflight |-> 0, events |-> <<>>, clock |-> 0, cb |-> NoCallbacks,
      maps |-> 0 ]


(***************************************************************************)
(* Topology resolution.  Each operator takes the kernel's answer as a case *)
(* name and leaves in the object what the code leaves there.               *)
(***************************************************************************)
\* findConnector: the scan assigns m_drmConnector at every index and resets
\* it after every rejected connector; the resource list of a constructed
\* session holds at least one connector.
findConnector(s, found) ==
    Return([s EXCEPT !.d.m_drmConnector = found], found)

EncoderCases == {"fetched", "current_fails", "none"}

\* findEncoder: the connector's current encoder when it has one that can be
\* fetched, else the first listed encoder that can be fetched ("fetched").
\* "current_fails": the current encoder cannot be fetched and no listed one
\* can either.  "none": the connector has no current encoder and no listed one
\* can be fetched; the member is only assigned by a fetch, so a pointer left
\* by an earlier call is kept and the list is not scanned.
findEncoder(s, e) ==
    LET got == CASE e = "fetched"       -> TRUE
                 [] e = "current_fails" -> FALSE
                 [] OTHER               -> s.d.m_drmEncoder
    IN Return([s EXCEPT !.d.m_drmEncoder = got], got)

CrtcCases == {"fetched", "current_fails", "none"}

\* findCrtc: the encoder's current CRTC when it can be fetched, else the first
\* CRTC of the resource list whose bit is set in possible_crtcs.
findCrtc(s, c) ==
    LET got == CASE c = "fetched"       -> TRUE
                 [] c = "current_fails" -> FALSE
                 [] OTHER               -> s.d.m_drmCrtc
    IN Return([s EXCEPT !.d.m_drmCrtc = got], got)

PlaneCases == {"no_resources", "primary", "none"}

\* the id of the plane the scan resolves to
PlaneId == 31

\* findPlane: fails without the plane resources; keeps the first compatible
\* PRIMARY plane that lists the camera format; succeeds when m_primaryPlaneId
\* is non-zero after the scan.
findPlane(s, p) ==
    CASE p = "no_resources" -> Return(s, FALSE)
      [] p = "primary"      -> Return([s EXCEPT !.d.m_primaryPlaneId = PlaneId,
                                                !.d.m_drmPrimaryPlane = TRUE], TRUE)
      [] OTHER              -> Return(s, s.d.m_primaryPlaneId # 0)

PatternCases == {"create_dumb_fails", "addfb_fails", "map_dumb_fails", "mmap_fails", "ok"}

\* a Cleanup that leaves the mapping
PatternCleanup_KeepsMap(s) == Issue(s, Event("gemClose", TRUE))

\* the Cleanup of createTestPattern (display.cpp 547-550)
PatternCleanup(s) ==
    Issue(Issue([s EXCEPT !.k.maps = @ - 1], Event("munmap", TRUE)), Event("gemClose", TRUE))

\* the err label of createTestPattern (display.cpp 554-562), fbId being the
\* local that holds the framebuffer registered so far, 0 for none
PatternErr(s, fbId) ==
    LET undone == IF fbId # 0
                  THEN Issue([s EXCEPT !.k.fbs = @ \ {fbId}], FbReq("rmfb", fbId))
                  ELSE s
    IN Return(Issue(undone, Event("destroyDumb", TRUE)), FALSE)

\* createTestPattern: dumb buffer, framebuffer, map, fill, unmap.  The err
\* path removes the framebuffer it registered; success stores its id.
createTestPattern(s, t) ==
    LET fb == FreshFb(s.k)
        created == Issue(s, Event("createDumb", t # "create_dumb_fails"))
        added == Issue([created EXCEPT !.k.fbs = @ \cup {fb}], FbReq("addfb", fb))
        asked == Issue(added, Event("mapDumb", t # "map_dumb_fails"))
        mapped == Issue(asked, Event("mmap", t # "mmap_fails"))
        filled == Issue([mapped EXCEPT !.k.maps = @ + 1], Event("fill", TRUE))
    IN CASE t = "create_dumb_fails" -> Return(created, FALSE)
         [] t = "addfb_fails"       -> PatternErr(Issue(created, Event("addfb", FALSE)), 0)
         [] t = "map_dumb_fails"    -> PatternErr(asked, fb)
         [] t = "mmap_fails"        -> PatternErr(mapped, fb)
         [] OTHER                   -> Return(PatternCleanup([filled EXCEPT
                                                  !.d.m_testPatern_FbId = fb]), TRUE)

\* loadSplashScreen falls back to the test pattern and copies its id, whatever
\* createTestPattern returned.
loadSplashScreen(s, t) ==
    LET r == createTestPattern(s, t)
    IN [r EXCEPT !.d.m_splashscreen_FbId = r.d.m_testPatern_FbId]

\* the kernel can register one more framebuffer
CanAddFb(k) == Cardinality(k.fbs) < MaxFbs

(***************************************************************************)
(* Commits.                                                                *)
(***************************************************************************)
ModeSetCases == {"alloc_fails", "blob_fails", "no_conn_crtc_id", "no_crtc_props",
                 "no_plane_fb_id", "no_plane_crtc_id", "no_src_props", "no_dst_props",
                 "commit_fails", "ok"}

\* what atomicModeSet leaves in m_modePropFb_id: the lookup of line 371 stores
\* its answer in the member before the answer is tested
ModeSetPropFb(old, m) ==
    CASE m \in {"alloc_fails", "blob_fails", "no_conn_crtc_id", "no_crtc_props"} -> old
      [] m = "no_plane_fb_id" -> 0
      [] OTHER -> PropFbId

\* the flag after the mode-set commit returned ret (display.cpp 413-419)
ModeSetFlag(old, accepted) == IF accepted THEN TRUE ELSE old

\* the kernel's side of an accepted commit that asked for a completion event
Accept(k) == [k EXCEPT !.inflight = @ + 1]

\* the property lookups of atomicModeSet in the order of the code, each
\* group tested after its last lookup: the connector's CRTC_ID; the CRTC's
\* MODE_ID and ACTIVE; the plane's FB_ID and CRTC_ID; SRC_W/H/X/Y; CRTC_W/H/X/Y
PropertyGroups ==
    << {"no_conn_crtc_id"}, {"no_crtc_props"}, {"no_plane_fb_id", "no_plane_crtc_id"},
       {"no_src_props"}, {"no_dst_props"} >>

\* the group whose test fails in case m, 0 when every property is found
FailingGroup(m) ==
    IF \E i \in 1..Len(PropertyGroups) : m \in PropertyGroups[i]
    THEN CHOOSE i \in 1..Len(PropertyGroups) : m \in PropertyGroups[i]
    ELSE 0

\* the lookups from group i on, up to the group that fails
RECURSIVE Lookups(_, _, _)
Lookups(s, i, failing) ==
    IF i > Len(PropertyGroups) THEN s
    ELSE IF i = failing THEN Issue(s, Event("getProperty", FALSE))
    ELSE Lookups(Issue(s, Event("getProperty", TRUE)), i + 1, failing)

\* an err label that leaves the mode blob
ModeSetRelease_KeepsBlob(s) == Issue(s, Event("atomicFree", TRUE))

\* drmModeAtomicFree(req) and drmModeDestroyPropertyBlob(m_drmFd, blob_id),
\* at the err label and after the commit
ModeSetRelease(s) ==
    Issue(Issue(s, Event("atomicFree", TRUE)), Event("destroyBlob", TRUE))

\* atomicModeSet: one transaction, committed with PAGE_FLIP_EVENT and
\* ALLOW_MODESET (blocking), carrying &m_frame as the event's user data.
atomicModeSet(s, m) ==
    LET fb == IF s.d.testing_display THEN s.d.m_testPatern_FbId ELSE s.d.m_splashscreen_FbId
        allocated == Issue(s, Event("atomicAlloc", m # "alloc_fails"))
        blob == Issue(allocated, Event("createBlob", m # "blob_fails"))
        looked == [Lookups(blob, 1, FailingGroup(m)) EXCEPT
                      !.d.m_modePropFb_id = ModeSetPropFb(@, m)]
        flagged == [looked EXCEPT !.d.m_frame.flip_pending = ModeSetFlag(@, m = "ok")]
    IN CASE m = "alloc_fails"  -> Return(allocated, FALSE)
         [] m = "blob_fails"   -> Return(Issue(blob, Event("atomicFree", TRUE)), FALSE)
         [] m = "ok"           -> Return(ModeSetRelease(Issue([flagged EXCEPT !.k = Accept(@)],
                                                              CommitReq(FALSE, fb, TRUE))), TRUE)
         [] m = "commit_fails" -> Return(ModeSetRelease(Issue(flagged, CommitReq(FALSE, fb, FALSE))),
                                         FALSE)
         [] OTHER              -> Return(ModeSetRelease(looked), FALSE)

\* eventCb: the page-flip handler, called with user_data = &m_frame
\* a callback that leaves the flag as it found it
eventCb_KeepsPending(f, sec, usec) ==
    [ count        |-> f.count + 1,
      sec          |-> IF f.count > 0 THEN sec ELSE f.sec,
      usec         |-> IF f.count > 0 THEN usec ELSE f.usec,
      flip_pending |-> f.flip_pending ]

eventCb(f, sec, usec) ==
    [ count        |-> f.count + 1,
      sec          |-> IF f.count > 0 THEN sec ELSE f.sec,
      usec         |-> IF f.count > 0 THEN usec ELSE f.usec,
      flip_pending |-> FALSE ]

\* the timestamp eventCb takes as old_t, <<>> when it computes no rate
\* (display.cpp 709-712)
RateBasis(f) == IF f.count > 0 THEN <<f.sec, f.usec>> ELSE <<>>

\* the callbacks of one drmHandleEvent, recorded one by one
RECURSIVE Completions(_, _, _)
Completions(cb, f, evs) ==
    IF evs = <<>> THEN cb
    ELSE Completions([n |-> cb.n + 1, last |-> <<Head(evs).sec, Head(evs).usec>>,
                      prev |-> cb.last, basis |-> RateBasis(f)],
                     eventCb(f, Head(evs).sec, Head(evs).usec), Tail(evs))

\* drmHandleEvent dispatches every event it read, in queue order
RECURSIVE Dispatch(_, _)
Dispatch(f, evs) ==
    IF evs = <<>> THEN f
    ELSE Dispatch(eventCb(f, Head(evs).sec, Head(evs).usec), Tail(evs))

\* handleEvent: a failed drmHandleEvent has dispatched nothing
handleEvent(s, ok) ==
    IF ok
    THEN Return([s EXCEPT !.d.m_frame = Dispatch(@, s.k.events), !.k.events = <<>>,
                          !.k.cb = Completions(@, s.d.m_frame, s.k.events),
                          !.reqs = @ \o [i \in 1..Len(s.k.events) |-> Callback]], TRUE)
    ELSE Return(s, FALSE)

\* a loop that does not look at the flag before scanout
flipPending_Never(d) == FALSE

\* flipPending (display.hpp 101-103)
flipPending(d) == d.m_frame.flip_pending

UpdateCases == {"alloc_fails", "commit_fails", "ok"}

\* the flag set whatever the commit returned
UpdateFlag_SetAlways(old, accepted) == TRUE

\* the flag assigned from the commit's result, cleared by a failed commit
UpdateFlag_Assign(old, accepted) == accepted

\* the flag after the non-blocking commit returned (display.cpp 765-770)
UpdateFlag(old, accepted) == IF accepted THEN TRUE ELSE old

\* whether atomicUpdate goes on to build and submit its transaction
\* (display.cpp 741-756): the sanity checks and the allocation
UpdateSubmits(d, cam_fbId, u) ==
    /\ cam_fbId > 0
    /\ d.m_modePropFb_id > 0
    /\ u # "alloc_fails"

\* atomicUpdate: a transaction holding only the plane's FB_ID, committed
\* NONBLOCK | PAGE_FLIP_EVENT
atomicUpdate(s, cam_fbId, u) ==
    IF ~UpdateSubmits(s.d, cam_fbId, u) THEN Return(s, FALSE)
    ELSE LET flagged == [s EXCEPT !.d.m_frame.flip_pending = UpdateFlag(@, u = "ok")]
         IN IF u = "ok"
            THEN Return(Issue([flagged EXCEPT !.k = Accept(@)], CommitReq(TRUE, cam_fbId, TRUE)), TRUE)
            ELSE Return(Issue(flagged, CommitReq(TRUE, cam_fbId, FALSE)), FALSE)

ImportCases == {"bad_fd", "prime_fails", "addfb_fails", "ok"}

\* a fourcc string as the codes of its four characters
Chars(fourcc) ==
    CASE fourcc = "NV12" -> <<78, 86, 49, 50>>
      [] fourcc = "XR24" -> <<88, 82, 50, 52>>
      [] fourcc = "YUYV" -> <<89, 85, 89, 86>>

\* fourcc_code / __gbm_fourcc_code: a | b << 8 | c << 16 | d << 24
fourcc_code(c) == c[1] + c[2] * 2^8 + c[3] * 2^16 + c[4] * 2^24

DRM_FORMAT_NV12 == fourcc_code(Chars("NV12"))

GBM_FORMAT_XRGB8888 == fourcc_code(Chars("XR24"))

\* the fourccs a configuration can name
ConfigFourccs == {"NV12", "XR24", "YUYV"}

\* the formats the constructor derives (display.cpp 37-49, 91-100): conf is
\* the configuration after the test-mode override; fourcc is a reference to
\* m_config.gpu_buf.fourcc, so line 99 stores the camera's fourcc in it
ConstructFormats(testing, cam, gpu) ==
    LET conf == [cam |-> IF testing THEN "NV12" ELSE cam,
                 gpu |-> IF testing THEN "XR24" ELSE gpu]
    IN [ conf         |-> conf,
         m_gpu_format |-> fourcc_code(Chars(conf.gpu)),
         m_cam_format |-> fourcc_code(Chars(conf.cam)),
         m_config     |-> [conf EXCEPT !.gpu = conf.cam] ]

\* a createFbFromFd without the format test of lines 662-666
createFbFromFd_AnyFormat(s, i) ==
    LET fb == FreshFb(s.k)
    IN IF i = "bad_fd" THEN Return(s, 0)
       ELSE IF i = "prime_fails" THEN Return(Issue(s, Event("primeFDToHandle", FALSE)), 0)
       ELSE LET got == Issue(s, Event("primeFDToHandle", TRUE))
                added == IF i = "ok"
                         THEN Issue([got EXCEPT !.k.fbs = @ \cup {fb}], FbReq("addfb", fb))
                         ELSE Issue(got, [FbReq("addfb", 0) EXCEPT !.ok = FALSE])
            IN Return(Issue(added, Event("gemClose", TRUE)), IF i = "ok" THEN fb ELSE 0)

\* createFbFromFd: answers the new framebuffer's id in ret, 0 on failure;
\* the GEM handle is closed after drmModeAddFB2 whatever it returned
createFbFromFd(s, i) ==
    LET fb == FreshFb(s.k)
    IN IF i = "bad_fd" THEN Return(s, 0)
       ELSE IF ~s.d.cam_is_nv12 THEN Return(s, 0)
       ELSE IF i = "prime_fails" THEN Return(Issue(s, Event("primeFDToHandle", FALSE)), 0)
       ELSE LET got == Issue(s, Event("primeFDToHandle", TRUE))
                added == IF i = "ok"
                         THEN Issue([got EXCEPT !.k.fbs = @ \cup {fb}], FbReq("addfb", fb))
                         ELSE Issue(got, [FbReq("addfb", 0) EXCEPT !.ok = FALSE])
            IN Return(Issue(added, Event("gemClose", TRUE)), IF i = "ok" THEN fb ELSE 0)

GbmBoCases == {"null_bo", "addfb_fails", "ok"}

\* createFbFromGbmBo (display.cpp 579-614)
createFbFromGbmBo(s, g) ==
    LET fb == FreshFb(s.k)
    IN IF g = "null_bo" THEN Return(s, 0)
       ELSE IF s.d.m_gpu_format # GBM_FORMAT_XRGB8888 THEN Return(s, 0)
       ELSE IF g = "ok"
            THEN Return(Issue([s EXCEPT !.k.fbs = @ \cup {fb}], FbReq("addfb", fb)), fb)
            ELSE Return(Issue(s, [FbReq("addfb", 0) EXCEPT !.ok = FALSE]), 0)

\* drmModeRmFB: the kernel refuses an id that names no framebuffer
RmFB(s, fb) ==
    Issue([s EXCEPT !.k.fbs = @ \ {fb}], [FbReq("rmfb", fb) EXCEPT !.ok = fb \in s.k.fbs])

\* one conditional release of the destructor
Release(s, held, name) == IF held THEN Issue(s, Event(name, TRUE)) ELSE s

\* Display::~Display (display.cpp 824-865); closing the descriptor drops
\* the framebuffers still registered on it
Destructor(s) ==
    LET a == IF s.d.m_splashscreen_FbId > 0 THEN RmFB(s, s.d.m_splashscreen_FbId) ELSE s
        b == IF s.d.m_testPatern_FbId > 0 THEN RmFB(a, s.d.m_testPatern_FbId) ELSE a
        c == Release(b, s.d.m_drmPrimaryPlane, "freePlane")
        e == Release(c, s.d.m_drmCrtc, "freeCrtc")
        f == Release(e, s.d.m_drmEncoder, "freeEncoder")
        g == Release(f, s.d.m_drmConnector, "freeConnector")
        h == Release(g, s.d.m_drmRes, "freeResources")
        i == Release(h, s.d.m_gbmDev, "gbmDestroy")
    IN IF s.d.m_drmFd # 0 THEN [Issue(i, Event("close", TRUE)) EXCEPT !.k.fbs = {}]
       ELSE i

\* a scanout that keeps the imported framebuffer when the commit failed
scanoutBody_KeepsOnFailure(s, i, u) ==
    IF s.d.testing_display
    THEN atomicUpdate(s, s.d.m_testPatern_FbId, u)
    ELSE LET made == createFbFromFd(s, i)
             fbId == made.ret
             flipped == atomicUpdate(made, fbId, u)
         IN IF fbId = 0 THEN Return(made, FALSE)
            ELSE IF flipped.ret THEN Return(RmFB(flipped, fbId), TRUE)
            ELSE flipped

\* scanout, past the m_display_initialized check
scanoutBody(s, i, u) ==
    IF s.d.testing_display
    THEN atomicUpdate(s, s.d.m_testPatern_FbId, u)
    ELSE LET made == createFbFromFd(s, i)
             fbId == made.ret
             flipped == atomicUpdate(made, fbId, u)
         IN IF fbId = 0 THEN Return(made, FALSE)
            ELSE Return(RmFB(flipped, fbId), flipped.ret)

scanout(s, i, u) ==
    IF ~s.d.m_display_initialized THEN Return(s, FALSE) ELSE scanoutBody(s, i, u)

(***************************************************************************)
(* The capture session (capture.cpp).  The Capture object is the record    *)
(* cap, the V4L2 device the record v4l.  start() is a sequence of steps,   *)
(* one per helper it calls; cpc is the helper about to run.                *)
(***************************************************************************)
\* largest width, height and range limit the device and the config use
MaxDim == 2
\* largest step of a stepwise descriptor
MaxStep == 2
\* frame-size descriptors the device enumerates at most
MaxSizes == 2
\* largest buffer count, requested or answered by the driver
MaxBufs == 3
\* planes per buffer the driver reports at most (VIDEO_MAX_PLANES is 8)
MaxPlanes == 2
Dim == 1..MaxDim

\* the fourcc of the config, and another one a device may list
Fourcc == "NV12"

FormatLists == {<<>>, <<"YUYV">>, <<"NV12">>, <<"YUYV", "NV12">>}

\* struct v4l2_frmsizeenum as the driver fills it: a discrete size, a
\* stepwise or continuous range, or a type the code does not know
Frmsize(type, width, height, minw, maxw, stepw, minh, maxh, steph) ==
    [ type |-> type, width |-> width, height |-> height,
      min_width |-> minw, max_width |-> maxw, step_width |-> stepw,
      min_height |-> minh, max_height |-> maxh, step_height |-> steph ]

Discretes == { Frmsize("discrete", w, h, 0, 0, 0, 0, 0, 0) : w \in Dim, h \in Dim }

Stepwises ==
    { Frmsize("stepwise", 0, 0, r[1], r[2], r[3], r[4], r[5], r[6]) :
        r \in { q \in Dim \X Dim \X (1..MaxStep) \X Dim \X Dim \X (1..MaxStep) :
                  q[1] <= q[2] /\ q[4] <= q[5] } }

Continuouses ==
    { Frmsize("continuous", 0, 0, r[1], r[2], 1, r[3], r[4], 1) :
        r \in { q \in Dim \X Dim \X Dim \X Dim : q[1] <= q[2] /\ q[3] <= q[4] } }

Frmsizes == Discretes \cup Stepwises \cup Continuouses \cup {Frmsize("other", 0, 0, 0, 0, 0, 0, 0, 0)}

\* a capture_buf whose planes are all unmapped (nullptr is 0)
NullBuf == [p \in 1..MaxPlanes |-> 0]

\* std::vector::resize: keeps the first n elements, value-initializes new ones
Resize(bufs, n) == [i \in 1..n |-> IF i <= Len(bufs) THEN bufs[i] ELSE NullBuf]

\* Capture::Capture with a valid config; m_is_mp_device has no initializer
CaptureInit(w, h, n, mp) ==
    [ width |-> w, height |-> h, buf_count |-> n,
      m_is_mp_device |-> mp,
      m_capture_buf |-> Resize(<<>>, n) ]

\* stray holds the addresses handed to munmap while the process held no
\* mapping of the pool there
V4lInit == [mapped |-> {}, next |-> 1, queued |-> <<>>, streaming |-> FALSE, stray |-> {}]

Req(name, arg) == [req |-> name, arg |-> arg]

\* fmts is the device's format list, cut how many of them were listed when
\* a VIDIOC_ENUM_FMT was interrupted (all of them when none was)
NoEnv == [planes |-> <<>>, fail |-> <<"none", 0, 0>>, fmts |-> <<>>, cut |-> 0, count |-> -1]

\* ret is "none" until start() is called, "running" inside it; caps is what
\* the device answered to VIDIOC_QUERYCAP, where the trace keeps it
\* starts counts the calls of start()
RunInit ==
    [ reqs |-> <<>>, ret |-> "none", failed |-> "none", env |-> NoEnv, caps |-> "none",
      starts |-> 0 ]

FsInit ==
    [ found_sizes |-> FALSE, requested_size_ok |-> FALSE, index |-> 0,
      kinds |-> {}, offered |-> FALSE,
      width_listed |-> FALSE, height_listed |-> FALSE, returned |-> "none",
      uninterrupted |-> "none" ]

CaptureUnused ==
    /\ cap = CaptureInit(1, 1, 1, FALSE)
    /\ v4l = V4lInit
    /\ cpc = "idle"
    /\ c_run = RunInit
    /\ fs = FsInit

(***************************************************************************)
(* checkFormatSize, one VIDIOC_ENUM_FRAMESIZES answer at a time.           *)
(***************************************************************************)
\* the stepwise test of lines 192-200
StepwiseOk(d, w, h) ==
    LET width_ok == w >= d.min_width /\ w <= d.max_width /\ w % d.step_width = 0
        height_ok == h >= d.min_height /\ h <= d.max_height /\ h % d.step_height = 0
    IN width_ok /\ height_ok

\* a discrete test that looks at the width alone
DiscreteOk_WidthOnly(d, w, h) == w = d.width

\* the discrete test of line 176
DiscreteOk(d, w, h) == w = d.width /\ h = d.height

\* the continuous test of lines 213-217
ContinuousOk(d, w, h) ==
    /\ w >= d.min_width
    /\ w <= d.max_width
    /\ h >= d.min_height
    /\ h <= d.max_height

\* the body of the while loop for one enumerated descriptor (lines 168-220)
FrmsizeBody(loc, d, w, h) ==
    LET hit == CASE d.type = "discrete"   -> DiscreteOk(d, w, h)
                 [] d.type = "stepwise"   -> StepwiseOk(d, w, h)
                 [] d.type = "continuous" -> ContinuousOk(d, w, h)
                 [] OTHER                 -> FALSE
    IN [loc EXCEPT !.found_sizes = TRUE,
                   !.requested_size_ok = @ \/ hit,
                   !.index = @ + 1]

\* a result that takes an empty enumeration for a mismatch
FrmsizeResult_Strict(loc) == loc.requested_size_ok

\* what checkFormatSize returns once the enumeration ended (lines 222-238)
FrmsizeResult(loc) ==
    IF ~loc.found_sizes THEN TRUE
    ELSE loc.requested_size_ok

\* what a descriptor offers by the V4L2 meaning of its type: the one size,
\* the sizes min + n*step up to max, or every size of the range
Offered(d, w, h) ==
    CASE d.type = "discrete" -> w = d.width /\ h = d.height
      [] d.type = "stepwise" ->
            /\ d.min_width <= w /\ w <= d.max_width
            /\ (w - d.min_width) % d.step_width = 0
            /\ d.min_height <= h /\ h <= d.max_height
            /\ (h - d.min_height) % d.step_height = 0
      [] d.type = "continuous" ->
            /\ d.min_width <= w /\ w <= d.max_width
            /\ d.min_height <= h /\ h <= d.max_height
      [] OTHER -> FALSE

\* one more answer of the device: the loop body, and a record of what the
\* device enumerated (its kinds, whether one of them offered the size,
\* whether a discrete one listed the width, and one the height)
FrmsizeNext(loc, d, w, h) ==
    [FrmsizeBody(loc, d, w, h) EXCEPT
        !.kinds = @ \cup {d.type},
        !.offered = @ \/ Offered(d, w, h),
        !.width_listed = @ \/ (d.type = "discrete" /\ d.width = w),
        !.height_listed = @ \/ (d.type = "discrete" /\ d.height = h)]

(***************************************************************************)
(* The helpers of start().  A run is [c, k, reqs, ret]: the object, the    *)
(* device, the requests issued so far and the helper's return value.       *)
(***************************************************************************)
CRun(c, k, reqs) == [c |-> c, k |-> k, reqs |-> reqs, ret |-> TRUE]

CapsCases == {"querycap_fails", "no_streaming", "streaming", "streaming_mplane"}

checkDeviceCapabilities(s, q) ==
    LET asked == Issue(s, Req("QUERYCAP", 0))
    IN CASE q = "streaming_mplane" -> Return([asked EXCEPT !.c.m_is_mp_device = TRUE], TRUE)
         [] q = "streaming"        -> Return(asked, TRUE)
         [] OTHER                  -> Return(asked, FALSE)

\* one VIDIOC_ENUM_FMT per listed format and the one that ends the loop
enumerateFormats(s, fmts) ==
    Return([s EXCEPT !.reqs = @ \o [i \in 1..(Len(fmts) + 1) |-> Req("ENUM_FMT", i - 1)]],
           fmts # <<>>)

\* checkFormat up to the size check: the format list and the search in it
FormatFound(fmts) == \E i \in 1..Len(fmts) : fmts[i] = Fourcc

\* a checkFormat that goes on to the size check whatever the list holds
checkFormatHead_SkipsSearch(s, fmts) == enumerateFormats(s, fmts)

checkFormatHead(s, fmts) ==
    LET listed == enumerateFormats(s, fmts)
    IN IF ~listed.ret THEN listed ELSE Return(listed, FormatFound(fmts))

\* checkFormat after the size check
checkFormatTail(s, loc) ==
    Return(Issue(s, Req("ENUM_FRAMESIZES", loc.index)), FrmsizeResult(loc))

setFormat(s, ok) ==
    IF ~s.c.m_is_mp_device THEN Return(s, FALSE)
    ELSE Return(Issue(s, Req("S_FMT", 0)), ok)

\* a requestBuffers that takes the driver's count and keeps the pool as it is
requestBuffers_NoResize(s, ok, count) ==
    IF ok THEN Return([Issue(s, Req("REQBUFS", s.c.buf_count)) EXCEPT !.c.buf_count = count], TRUE)
    ELSE Return(Issue(s, Req("REQBUFS", s.c.buf_count)), FALSE)

\* count is the driver's answer; "fails" is a failed request
requestBuffers(s, ok, count) ==
    LET asked == Issue(s, Req("REQBUFS", s.c.buf_count))
    IN IF ~ok THEN Return(asked, FALSE)
       ELSE IF count # s.c.buf_count
            THEN Return([asked EXCEPT !.c.buf_count = count,
                                      !.c.m_capture_buf = Resize(@, count)], TRUE)
            ELSE Return(asked, TRUE)

munmap(s, a) ==
    [s EXCEPT !.k.mapped = @ \ {a},
              !.k.stray = IF a \in s.k.mapped THEN @ ELSE @ \cup {a},
              !.reqs = Append(@, Req("munmap", a))]

\* the unwind loops of lines 408-415: buffers 0..i, planes 0..len-1 of each,
\* len being the plane count of the buffer whose mapping failed
RECURSIVE Unwind(_, _, _, _)
Unwind(s, n, i, len) ==
    IF n >= i * len THEN s
    ELSE LET j == (n \div len) + 1
             k == (n % len) + 1
             a == s.c.m_capture_buf[j][k]
         IN Unwind(IF a # 0 THEN munmap(s, a) ELSE s, n + 1, i, len)

\* the plane loop of buffer i from plane p on (lines 399-424)
RECURSIVE MapPlanes(_, _, _, _, _)
MapPlanes(s, i, p, len, fail) ==
    IF p > len THEN Return(s, TRUE)
    ELSE IF fail = <<"mmap", i, p>>
         THEN Return(Unwind(Issue(s, Req("mmap", 0)), 0, i, len), FALSE)
         ELSE LET a == s.k.next
                  got == [s EXCEPT !.k.mapped = @ \cup {a},
                                   !.k.next = a + 1,
                                   !.c.m_capture_buf[i][p] = a,
                                   !.reqs = Append(@, Req("mmap", a))]
              IN MapPlanes(got, i, p + 1, len, fail)

\* the buffer loop from buffer i on (lines 386-429)
RECURSIVE MapBuffersFrom(_, _, _, _)
MapBuffersFrom(s, i, planes, fail) ==
    IF i > s.c.buf_count THEN Return(s, TRUE)
    ELSE LET asked == Issue(s, Req("QUERYBUF", i - 1))
         IN IF fail = <<"querybuf", i, 0>> THEN Return(asked, FALSE)
            ELSE IF ~s.c.m_is_mp_device THEN Return(asked, FALSE)
            ELSE LET r == MapPlanes(asked, i, 1, planes[i], fail)
                 IN IF ~r.ret THEN r ELSE MapBuffersFrom(r, i + 1, planes, fail)

mapBuffers(s, planes, fail) == MapBuffersFrom(s, 1, planes, fail)

\* a queue loop that goes on after a failed VIDIOC_QBUF
RECURSIVE QueueFrom_GoesOn(_, _, _)
QueueFrom_GoesOn(s, i, failAt) ==
    IF i > s.c.buf_count THEN Return(s, failAt = 0)
    ELSE LET asked == Issue(s, Req("QBUF", i - 1))
         IN IF i = failAt THEN QueueFrom_GoesOn(asked, i + 1, failAt)
            ELSE QueueFrom_GoesOn([asked EXCEPT !.k.queued = Append(@, i - 1)], i + 1, failAt)

\* VIDIOC_QBUF for buffers 0.., the one numbered failAt failing (0: none)
RECURSIVE QueueFrom(_, _, _)
QueueFrom(s, i, failAt) ==
    IF i > s.c.buf_count THEN Return(s, TRUE)
    ELSE LET asked == Issue(s, Req("QBUF", i - 1))
         IN IF i = failAt THEN Return(asked, FALSE)
            ELSE QueueFrom([asked EXCEPT !.k.queued = Append(@, i - 1)], i + 1, failAt)

queueBuffers(s, failAt) == QueueFrom(s, 1, failAt)

\* a streamOn that leaves the device streaming when the request failed
streamOn_SwitchesAnyway(s, ok) ==
    Return([Issue(s, Req("STREAMON", 0)) EXCEPT !.k.streaming = TRUE], ok)

streamOn(s, ok) ==
    LET asked == Issue(s, Req("STREAMON", 0))
    IN IF ok THEN Return([asked EXCEPT !.k.streaming = TRUE], TRUE)
       ELSE Return(asked, FALSE)

\* Capture::streamOff (capture.cpp 547-566)
streamOff(s, ok) ==
    LET asked == Issue(s, Req("STREAMOFF", 0))
    IN IF ok THEN Return([asked EXCEPT !.k.streaming = FALSE], TRUE)
       ELSE Return(asked, FALSE)

\* Capture::stop (capture.cpp 568-579)
stop(s, ok) == streamOff(s, ok)

\* Capture::~Capture (capture.cpp 581-586): closing the descriptor stops the
\* stream and leaves the process's mappings of the buffers in place
CaptureDestructor(s) ==
    Return([Issue(s, Req("close", 0)) EXCEPT !.k.streaming = FALSE, !.k.queued = <<>>], TRUE)

(***************************************************************************)
(* Construction and destruction of the two sessions and the descriptors    *)
(* they own (capture.cpp 36-69, 581-586; display.cpp 32-109, 824-865).     *)
(* os.fds are the descriptors open in the process; open() returns the      *)
(* lowest free one.                                                        *)
(***************************************************************************)
\* calls on a session between its construction and its destruction
MaxUses == 2

\* the first tag past the memory types (capture.hpp, mem_type_t)
MEM_TYPE_MAX == 2

LowestFree(fds) ==
    CHOOSE i \in 0..Cardinality(fds) : i \notin fds /\ \A j \in 0..(i - 1) : j \in fds

\* a session: not constructed, "live", "failed" in its constructor, or "gone"
\* for a Display: cards are the answers of the devices its constructor
\* tried, card the place of the one it kept (0 for none), held the
\* descriptors it opened and did not close, res the resource lists it
\* obtained and did not free
NoSession ==
    [ state |-> "none", fd |-> -1, uses |-> 0, conf |-> <<>>,
      cards |-> <<>>, card |-> 0, held |-> 0, res |-> 0 ]

OsInit(inherited) ==
    [ fds |-> inherited, closes |-> <<>>, capture |-> NoSession, display |-> NoSession ]

XioInit == [pc |-> "idle", req |-> "none", results |-> <<>>, ret |-> FALSE]

(***************************************************************************)
(* The CRTC and the plane of a card: findCrtc and findPlane over what the  *)
(* card answers.                                                           *)
(***************************************************************************)
\* how many planes the modelled cards list at most
MaxPlaneList == 2
\* how many initialize() calls a Display gets
MaxInits == 2
\* m_drmRes->count_crtcs of the modelled cards
NCrtcs == 2

CrtcIndices == 0..(NCrtcs - 1)

\* m_drmRes->crtcs[i] and planeRes->planes[i - 1]: object ids, none of them 0
CrtcIdAt(i) == 50 + i

PlaneIdAt(i) == 30 + i

CrtcIds == { CrtcIdAt(i) : i \in CrtcIndices }

\* what drmModeGetPlane and the property calls answer for one plane: got is
\* FALSE when drmModeGetPlane returns NULL; crtcs is possible_crtcs, with a
\* bit set; type is "no" when no property named "type" reads PRIMARY,
\* "first" when that property is the first of the plane's properties,
\* "later" when it is not (only with the format: without it the plane is
\* passed over wherever the property stands); format is whether formats[]
\* lists m_cam_format
PlaneAnswers ==
    { p \in [ got : {TRUE}, crtcs : (SUBSET CrtcIndices) \ {{}},
              type : {"no", "first", "later"}, format : BOOLEAN ] :
        p.type = "later" => p.format }
      \cup { [got |-> FALSE, crtcs |-> {}, type |-> "no", format |-> FALSE] }

PlaneLists == UNION { [1..n -> PlaneAnswers] : n \in 0..MaxPlaneList }

\* a card as the calls see it: res_ok is FALSE when drmModeGetPlaneResources
\* returns NULL; crtc_id is m_drmEncoder->crtc_id, possible_crtcs the
\* encoder's bitmask, crtcs_ok the CRTCs drmModeGetCrtc answers for
Topologies ==
    { t \in [ planes : PlaneLists, res_ok : BOOLEAN, crtc_id : {0} \cup CrtcIds,
              possible_crtcs : SUBSET CrtcIndices, crtcs_ok : SUBSET CrtcIndices ] :
        ~t.res_ok => t.planes = <<>> }

\* the members of a Display that findCrtc and findPlane write, with the
\* handles obtained and not freed: a plane handle is <<call, i>>, the
\* answer of the call-th findPlane for the plane at i, <<>> is nullptr
KmsObject ==
    [ m_crtcId |-> 0, m_drmCrtc |-> 0, m_primaryPlaneId |-> 0,
      m_drmPrimaryPlane |-> <<>>, planes_out |-> {}, crtcs_out |-> 0,
      plane_calls |-> 0 ]

CrtcIndex(id) == IF id \in CrtcIds THEN id - CrtcIdAt(0) ELSE -1

drmModeGetCrtc(t, id) == IF CrtcIndex(id) \in t.crtcs_ok THEN id ELSE 0

GotCrtc(o, h) ==
    [o EXCEPT !.m_drmCrtc = h, !.crtcs_out = IF h # 0 THEN @ + 1 ELSE @]

CurrentCrtc(t, o) ==
    IF t.crtc_id # 0
    THEN LET o1 == GotCrtc(o, drmModeGetCrtc(t, t.crtc_id))
         IN  IF o1.m_drmCrtc # 0 THEN [o1 EXCEPT !.m_crtcId = t.crtc_id] ELSE o1
    ELSE o

RECURSIVE SearchCrtc(_, _, _)
SearchCrtc(t, o, i) ==
    IF i >= NCrtcs THEN o
    ELSE IF i \in t.possible_crtcs
         THEN LET o1 == GotCrtc([o EXCEPT !.m_crtcId = CrtcIdAt(i)],
                                drmModeGetCrtc(t, CrtcIdAt(i)))
              IN  IF o1.m_drmCrtc # 0 THEN o1 ELSE SearchCrtc(t, o1, i + 1)
         ELSE SearchCrtc(t, o, i + 1)

findCrtcIn(t, o) ==
    LET o1 == CurrentCrtc(t, o)
        o2 == IF o1.m_drmCrtc = 0 THEN SearchCrtc(t, o1, 0) ELSE o1
    IN  [o |-> o2, ret |-> o2.m_drmCrtc # 0]

\* a plane_format_ok that outlives the call
plane_format_ok_Kept(o) == o.m_primaryPlaneId # 0

\* the local of findPlane as it is declared
plane_format_ok(o) == FALSE

\* the property loop ends after one property once m_primaryPlaneId is not 0:
\* it reads a "type" that is not the first property only while the id is 0
ReadsPrimary(p, o, crtc_index) ==
    /\ crtc_index \in p.crtcs
    /\ p.type # "no"
    /\ (p.type = "first" \/ o.m_primaryPlaneId = 0)

RECURSIVE ScanPlanes(_, _, _, _, _)
ScanPlanes(t, o, i, ok, crtc_index) ==
    IF i > Len(t.planes) THEN o
    ELSE IF ~t.planes[i].got THEN ScanPlanes(t, o, i + 1, ok, crtc_index)
    ELSE LET p  == t.planes[i]
             h  == <<o.plane_calls, i>>
             o1 == [o EXCEPT !.planes_out = @ \cup {h}]
             primary == ReadsPrimary(p, o1, crtc_index)
             ok1 == ok \/ (primary /\ p.format)
             o2 == IF primary /\ ok1
                   THEN [o1 EXCEPT !.m_primaryPlaneId = PlaneIdAt(i),
                                   !.m_drmPrimaryPlane = h]
                   ELSE o1
         IN  IF o2.m_primaryPlaneId # 0 THEN o2
             ELSE ScanPlanes(t, [o2 EXCEPT !.planes_out = @ \ {h}], i + 1, ok1,
                             crtc_index)

findPlaneIn(t, o) ==
    LET o0 == [o EXCEPT !.plane_calls = @ + 1]
    IN  IF ~t.res_ok THEN [o |-> o0, ret |-> FALSE]
        ELSE LET o1 == ScanPlanes(t, o0, 1, plane_format_ok(o0), CrtcIndex(o0.m_crtcId))
             IN  [o |-> o1, ret |-> o1.m_primaryPlaneId # 0]

\* the plane and the CRTC part of ~Display
FreeKms(o) ==
    [o EXCEPT !.planes_out = @ \ {o.m_drmPrimaryPlane},
              !.crtcs_out = IF o.m_drmCrtc # 0 THEN @ - 1 ELSE @]

\* a Display on a card t: where its initialize() calls stand, whether the
\* card changed since the first of them, and the ids that each findCrtc and
\* each findPlane left in m_crtcId and m_primaryPlaneId
KmsInit(t) ==
    [ t |-> t, o |-> KmsObject, pc |-> "new", inits |-> 0, changed |-> FALSE,
      crtc_ids |-> <<>>, plane_ids |-> <<>> ]

KmsNone == [pc |-> "none"]

(***************************************************************************)
(* The connector of a card: findConnector over what the card answers.     *)
(***************************************************************************)
\* how many connectors the modelled cards list at most (the constructor
\* keeps a card only when count_connectors > 0)
MaxConnectors == 2

\* m_drmRes->connectors[i - 1]
ConnectorIdAt(i) == 70 + i

\* what drmModeGetConnector answers for one connector: got is FALSE when it
\* returns NULL; connected is connection == DRM_MODE_CONNECTED, modes is
\* count_modes > 0
ConnectorAnswers ==
    [ got : {TRUE}, connected : BOOLEAN, modes : BOOLEAN ]
      \cup { [got |-> FALSE, connected |-> FALSE, modes |-> FALSE] }

ConnectorLists == UNION { [1..n -> ConnectorAnswers] : n \in 1..MaxConnectors }

\* a connector is taken whatever its mode list
ConnectorOk_NoModes(c) == c.got /\ c.connected

\* the test of findConnector on one answer
ConnectorOk(c) == c.got /\ c.connected /\ c.modes

\* m_drmConnector and m_connectorId, with the connector handles obtained and
\* not freed: <<call, i>> is the answer of the call-th findConnector for the
\* connector at i, <<>> is nullptr
ConObject ==
    [ m_drmConnector |-> <<>>, m_connectorId |-> 0, conns_out |-> {},
      connector_calls |-> 0 ]

\* drmModeFreeConnector, which ignores a null pointer
drmModeFreeConnector(o, h) == [o EXCEPT !.conns_out = @ \ {h}]

RECURSIVE ScanConnectors(_, _, _)
ScanConnectors(t, o, i) ==
    IF i > Len(t) THEN o
    ELSE LET h  == IF t[i].got THEN <<o.connector_calls, i>> ELSE <<>>
             o1 == [o EXCEPT !.m_drmConnector = h,
                             !.conns_out = IF t[i].got THEN @ \cup {h} ELSE @]
         IN  IF ConnectorOk(t[i])
             THEN [o1 EXCEPT !.m_connectorId = ConnectorIdAt(i)]
             ELSE ScanConnectors(t, [drmModeFreeConnector(o1, h) EXCEPT
                                        !.m_drmConnector = <<>>], i + 1)

findConnectorIn(t, o) ==
    LET o1 == ScanConnectors(t, [o EXCEPT !.connector_calls = @ + 1], 1)
    IN  [o |-> o1, ret |-> o1.m_drmConnector # <<>>]

\* the connector part of ~Display
FreeCon(o) == drmModeFreeConnector(o, o.m_drmConnector)

\* a Display on a card whose connectors answer t
ConInit(t) == [t |-> t, o |-> ConObject, pc |-> "new", inits |-> 0]


OthersUnused == os = OsInit({}) /\ xio = XioInit /\ kms = KmsNone

\* the descriptors a process may start with: none, stdin, or stdin to stderr
Inherited == {{}, {0}, {0, 1, 2}}

CaptureConfigs ==
    [ width : 0..1, height : 0..1, mem_type : 0..MEM_TYPE_MAX,
      buf_count : 0..1, fourcc_length : 3..5 ]

\* the two config tests of the constructor (lines 55-60)
ConfigAccepted(conf) ==
    /\ ~(conf.width = 0 \/ conf.height = 0
           \/ conf.mem_type >= MEM_TYPE_MAX \/ conf.buf_count = 0)
    /\ ~(conf.fourcc_length # 4)

Close(o, by, fd) ==
    [o EXCEPT !.fds = @ \ {fd}, !.closes = Append(@, [by |-> by, fd |-> fd])]

DeviceCases == {"stat_fails", "not_a_chardev", "open_fails", "opens"}

\* Capture::Capture: stat, open, then the config tests; fatal() throws
CaptureCtor(o, conf, dev) ==
    LET fd == LowestFree(o.fds)
        opened == [o EXCEPT !.fds = @ \cup {fd}, !.capture.fd = fd, !.capture.conf = conf]
    IN IF dev # "opens"
       THEN [o EXCEPT !.capture.state = "failed", !.capture.conf = conf]
       ELSE IF ConfigAccepted(conf)
            THEN [opened EXCEPT !.capture.state = "live"]
            ELSE [opened EXCEPT !.capture.state = "failed"]

\* Capture::~Capture
CaptureDtor(o) == [Close(o, "~Capture", o.capture.fd) EXCEPT !.capture.state = "gone"]

CardCases == {"open_fails", "no_resources", "empty", "suitable"}

SetupCases == {"client_cap_fails", "gbm_fails", "format_unsupported", "ok"}

\* open() of a DRM device by the constructor
OpenCard(o, fd) == [o EXCEPT !.fds = @ \cup {fd}, !.display.held = @ + 1]

\* close(m_drmFd) in the constructor
CloseCard(o, fd) == [Close(o, "Display", fd) EXCEPT !.display.held = @ - 1]

\* getResources() that obtained a list, and drmModeFreeResources(m_drmRes)
GotResources(o) == [o EXCEPT !.display.res = @ + 1]

FreeResources(o) == [o EXCEPT !.display.res = @ - 1]

\* a loop that leaves a card it does not keep as it is
TryCard_LeavesOpen(r, card) ==
    LET fd == LowestFree(r.o.fds)
        tried == [r.o EXCEPT !.display.cards = Append(@, card)]
        opened == OpenCard(tried, fd)
    IN CASE card = "open_fails"   -> [o |-> tried, fd |-> -1]
         [] card = "suitable"     -> [o |-> [GotResources(opened) EXCEPT
                                               !.display.card = Len(tried.display.cards)],
                                      fd |-> fd]
         [] card = "empty"        -> [o |-> GotResources(opened), fd |-> -1]
         [] OTHER                 -> [o |-> opened, fd |-> -1]

\* one turn of the loop over the DRM devices (display.cpp 55-71): the run is
\* [o, fd], fd being m_drmFd
TryCard(r, card) ==
    LET fd == LowestFree(r.o.fds)
        tried == [r.o EXCEPT !.display.cards = Append(@, card)]
        opened == OpenCard(tried, fd)
    IN CASE card = "open_fails"   -> [o |-> tried, fd |-> -1]
         [] card = "suitable"     -> [o |-> [GotResources(opened) EXCEPT
                                               !.display.card = Len(tried.display.cards)],
                                      fd |-> fd]
         [] card = "empty"        -> [o |-> CloseCard(FreeResources(GotResources(opened)), fd),
                                      fd |-> -1]
         [] OTHER                 -> [o |-> CloseCard(opened, fd), fd |-> -1]

\* Display::Display: the user buffers, the device loop, the setup, the catch
DisplayCtor(o, valid, card0, card1, setup) ==
    LET first == TryCard([o |-> o, fd |-> -1], card0)
        found == IF first.fd >= 0 THEN first ELSE TryCard(first, card1)
        failed(x) == [x EXCEPT !.display.state = "failed"]
    IN IF ~valid THEN failed(o)
       ELSE IF found.fd < 0 THEN failed(found.o)
       ELSE IF setup # "ok" THEN failed(CloseCard(FreeResources(found.o), found.fd))
       ELSE [found.o EXCEPT !.display.state = "live", !.display.fd = found.fd]

\* Display::~Display, the descriptor part (lines 861-864)
DisplayDtor(o) ==
    LET closed == IF o.display.fd # 0 THEN Close(o, "~Display", o.display.fd) ELSE o
    IN [closed EXCEPT !.display.state = "gone"]

(***************************************************************************)
(* xioctl (helpers.cpp 30-42): one ioctl per turn of its loop.             *)
(***************************************************************************)
\* signal interruptions of one xioctl call
MaxIntr == 3

\* the requests the capture session hands to xioctl
XRequests == {"QUERYCAP", "S_FMT", "REQBUFS", "QUERYBUF", "QBUF", "STREAMON", "STREAMOFF"}

\* what one ioctl gives: 0, or -1 with errno
IoctlResults == {"ok", "EINTR", "EINVAL", "EBUSY", "ENOTTY"}

\* a loop that gives up on a signal interruption
xioctlTurn_GivesUp(x, result) ==
    [x EXCEPT !.results = Append(@, result), !.pc = "returned", !.ret = (result = "ok")]

\* one turn of the loop: return true, go round again, or return false
xioctlTurn(x, result) ==
    LET called == [x EXCEPT !.results = Append(@, result)]
    IN CASE result = "ok"    -> [called EXCEPT !.pc = "returned", !.ret = TRUE]
         [] result = "EINTR" -> called
         [] OTHER            -> [called EXCEPT !.pc = "returned", !.ret = FALSE]

(***************************************************************************)
(* Steps of the display side.  A public call is one step; pcOk and pcFail  *)
(* are where main() goes on after it ("api" for an arbitrary caller).      *)
(***************************************************************************)
Finish(op, s, next) ==
    /\ disp' = s.d
    /\ drm' = s.k
    /\ d_last' = [op |-> op, ret |-> s.ret, reqs |-> s.reqs,
                   was_pending |-> disp.m_frame.flip_pending,
                   was_outstanding |-> Outstanding(drm),
                  was_initialized |-> disp.m_display_initialized]
    /\ pc' = next
    /\ UNCHANGED <<cvars, ovars>>

Done(op, s, pcOk, pcFail) == Finish(op, s, IF s.ret THEN pcOk ELSE pcFail)

\* the return of one helper of initialize, kept in the trace
Step(s, name) == Issue(s, Event(name, s.ret))

\* an initialize that sets the flag although atomicModeSet failed
Initialized_Regardless(s) == [s EXCEPT !.d.m_display_initialized = TRUE]

\* line 484, reached when atomicModeSet returned true
Initialized(s) == IF s.ret THEN [s EXCEPT !.d.m_display_initialized = TRUE] ELSE s

\* initialize, from the pattern on (display.cpp 464-486)
InitializeShow(s4, pcOk, pcFail) ==
    \E t \in PatternCases :
        /\ t = "ok" => CanAddFb(s4.k)
        /\ LET s5 == Step(IF s4.d.testing_display THEN createTestPattern(s4, t)
                          ELSE loadSplashScreen(s4, t), "pattern")
           IN IF ~s5.ret THEN Done("initialize", s5, pcOk, pcFail)
              ELSE \E m \in ModeSetCases :
                      /\ m = "ok" => CanAccept(s5.d, s5.k)
                      /\ LET s6 == Step(atomicModeSet(s5, m), "atomicModeSet")
                             s7 == Initialized(s6)
                         IN Done("initialize", s7, pcOk, pcFail)

\* initialize, from the encoder on (display.cpp 446-462)
InitializeResolve(s1, pcOk, pcFail) ==
    \E e \in EncoderCases :
        LET s2 == Step(findEncoder(s1, e), "findEncoder")
        IN IF ~s2.ret THEN Done("initialize", s2, pcOk, pcFail)
           ELSE \E c \in CrtcCases :
                   LET s3 == Step(findCrtc(s2, c), "findCrtc")
                   IN IF ~s3.ret THEN Done("initialize", s3, pcOk, pcFail)
                      ELSE \E p \in PlaneCases :
                              LET s4 == Step(findPlane(s3, p), "findPlane")
                              IN IF ~s4.ret THEN Done("initialize", s4, pcOk, pcFail)
                                 ELSE InitializeShow(s4, pcOk, pcFail)

\* Display::initialize
DoInitialize(pcOk, pcFail) ==
    LET s0 == Run(disp, drm)
    IN IF disp.m_display_initialized THEN Done("initialize", s0, pcOk, pcFail)
       ELSE \E found \in BOOLEAN :
               LET s1 == Step(findConnector(s0, found), "findConnector")
               IN IF ~s1.ret THEN Done("initialize", s1, pcOk, pcFail)
                  ELSE InitializeResolve(s1, pcOk, pcFail)

\* Display::scanout
DoScanout(pcOk, pcFail) ==
    \E i \in ImportCases, u \in UpdateCases :
        /\ i = "ok" => CanAddFb(drm)
        /\ u = "ok" => CanAccept(disp, drm)
        /\ Done("scanout", scanout(Run(disp, drm), i, u), pcOk, pcFail)

\* Display::handleEvent; the descriptor is blocking, so a successful
\* drmHandleEvent has read at least one event
DoHandleEvent(pcOk, pcFail) ==
    \E ok \in BOOLEAN :
        /\ ok => drm.events # <<>>
        /\ Done("handleEvent", handleEvent(Run(disp, drm), ok), pcOk, pcFail)

\* the kernel completes the oldest commit in flight and queues its event,
\* stamped with the time of the flip
Vblank ==
    /\ drm.inflight > 0
    /\ \E dt \in 1..MaxDt :
          /\ drm' = [drm EXCEPT !.inflight = @ - 1, !.clock = @ + dt,
                                !.events = Append(@, [sec |-> drm.clock + dt, usec |-> 0])]
          /\ d_last' = [op |-> "vblank", ret |-> TRUE, reqs |-> <<>>,
                         was_pending |-> disp.m_frame.flip_pending,
                         was_outstanding |-> Outstanding(drm),
                  was_initialized |-> disp.m_display_initialized]
    /\ UNCHANGED <<disp, pc>>
    /\ UNCHANGED <<cvars, ovars>>

Initialize == pc = "api" /\ DoInitialize("api", "api")

Scanout == pc = "api" /\ DoScanout("api", "api")

HandleEvent == pc = "api" /\ DoHandleEvent("api", "api")

\* the order in which a session acquires what its destructor releases, by
\* the name of the release: open (56), getResources (59), gbm_create_device
\* (84), then findConnector, findEncoder, findCrtc, findPlane and the
\* pattern of initialize (441-475)
AcquisitionOrder ==
    << "close", "freeResources", "gbmDestroy", "freeConnector", "freeEncoder",
       "freeCrtc", "freePlane", "rmfb" >>

AcquiredAt(name) == CHOOSE n \in 1..Len(AcquisitionOrder) : AcquisitionOrder[n] = name

\* the session is destroyed
Destroy ==
    /\ pc = "api"
    /\ Finish("destroy", Destructor(Run(disp, drm)), "gone")

NoCall == [op |-> "construct", ret |-> TRUE, reqs |-> <<>>,
           was_pending |-> FALSE, was_outstanding |-> 0,
           was_initialized |-> FALSE]

Init ==
    /\ \E testing \in BOOLEAN, nv12 \in BOOLEAN, fd \in DrmFds :
          /\ testing => nv12
          /\ disp = DisplayInit(testing, nv12, fd)
    /\ drm = DrmInit
    /\ d_last = NoCall
    /\ pc = "api"
    /\ CaptureUnused
    /\ OthersUnused

Next == Initialize \/ Scanout \/ HandleEvent \/ Vblank \/ Destroy

Spec == Init /\ [][Next]_vars

(***************************************************************************)
(* Framebuffer creation on a constructed session: the two creation         *)
(* functions applied to every configuration the constructor accepts, and   *)
(* the removal scanout() makes of a framebuffer it created.                *)
(***************************************************************************)
FbInit ==
    /\ \E testing \in BOOLEAN, cam \in ConfigFourccs, gpu \in ConfigFourccs :
          LET f == ConstructFormats(testing, cam, gpu)
          IN disp = DisplayInit(testing, f.m_cam_format = DRM_FORMAT_NV12, 3) @@ f
    /\ drm = DrmInit
    /\ d_last = NoCall
    /\ pc = "api"
    /\ CaptureUnused
    /\ OthersUnused

FbFromFd ==
    \E i \in ImportCases :
        /\ i = "ok" => CanAddFb(drm)
        /\ Finish("createFbFromFd", createFbFromFd(Run(disp, drm), i), "api")

FbFromGbmBo ==
    \E g \in GbmBoCases :
        /\ g = "ok" => CanAddFb(drm)
        /\ Finish("createFbFromGbmBo", createFbFromGbmBo(Run(disp, drm), g), "api")

FbRemove == \E fb \in drm.fbs : Finish("drmModeRmFB", RmFB(Run(disp, drm), fb), "api")

FbNext == FbFromFd \/ FbFromGbmBo \/ FbRemove

FbSpec == FbInit /\ [][FbNext]_vars

(***************************************************************************)
(* The scheduling loop of main(): initialize, then wait, handleEvent,      *)
(* scanout when flipPending() is false.                                    *)
(***************************************************************************)
MainInitialize == pc = "start" /\ DoInitialize("loop", "exit")

\* poll(&fds, 1, -1): readable, ready without POLLIN, or interrupted
MainPoll ==
    /\ pc = "loop"
    /\ \E r \in {"pollin", "other", "interrupted"} :
          /\ r = "pollin" => drm.events # <<>>
          /\ pc' = CASE r = "pollin" -> "handle" [] r = "other" -> "check" [] OTHER -> "loop"
    /\ d_last' = [op |-> "poll", ret |-> TRUE, reqs |-> <<>>,
                  was_pending |-> disp.m_frame.flip_pending,
                  was_outstanding |-> Outstanding(drm),
                  was_initialized |-> disp.m_display_initialized]
    /\ UNCHANGED <<disp, drm>>
    /\ UNCHANGED <<cvars, ovars>>

\* SIGINT cleared running
MainExit ==
    /\ pc = "loop"
    /\ pc' = "exit"
    /\ UNCHANGED <<disp, drm, d_last>>
    /\ UNCHANGED <<cvars, ovars>>

MainHandleEvent == pc = "handle" /\ DoHandleEvent("check", "exit")

MainSkip ==
    /\ pc = "check"
    /\ flipPending(disp)
    /\ pc' = "loop"
    /\ UNCHANGED <<disp, drm, d_last>>
    /\ UNCHANGED <<cvars, ovars>>

MainScanout == pc = "check" /\ ~flipPending(disp) /\ DoScanout("loop", "exit")

MainInit ==
    /\ disp = DisplayInit(TRUE, TRUE, 3)
    /\ drm = DrmInit
    /\ d_last = NoCall
    /\ pc = "start"
    /\ CaptureUnused
    /\ OthersUnused

MainNext ==
    \/ MainInitialize
    \/ MainPoll
    \/ MainExit
    \/ MainHandleEvent
    \/ MainSkip
    \/ MainScanout
    \/ Vblank

MainSpec == MainInit /\ [][MainNext]_vars

\* poll() returns with POLLIN
MainPollIn == MainPoll /\ pc' = "handle"

(***************************************************************************)
(* The loop under a kernel that completes every accepted commit and a      *)
(* poll() that reports a queued event: the process is scheduled (weak      *)
(* fairness of the loop's steps), the flip completes (weak fairness of     *)
(* Vblank), and a wait that finds an event queued again and again returns  *)
(* with POLLIN (strong fairness, the wait can also end on a signal).       *)
(***************************************************************************)
MainLiveSpec ==
    /\ MainInit /\ [][MainNext]_vars
    /\ WF_vars(Vblank)
    /\ SF_vars(MainPollIn)
    /\ WF_vars(MainHandleEvent)
    /\ WF_vars(MainSkip)
    /\ WF_vars(MainScanout)

(***************************************************************************)
(* Steps of Capture::start() (capture.cpp 489-538), called once on a       *)
(* fresh session.  A helper that returns false makes start() return false; *)
(* the last one makes it return true.                                      *)
(***************************************************************************)
CStep(step, s, env, next) ==
    /\ cap' = s.c
    /\ v4l' = s.k
    /\ c_run' = [c_run EXCEPT !.reqs = s.reqs,
                              !.env = env,
                              !.ret = IF ~s.ret THEN "false"
                                      ELSE IF next = "idle" THEN "true" ELSE "running",
                              !.failed = IF s.ret THEN "none" ELSE step]
    /\ cpc' = IF s.ret THEN next ELSE "idle"
    /\ UNCHANGED <<dvars, ovars>>

Now == CRun(cap, v4l, c_run.reqs)

\* the first step of start(); seen is what the trace keeps of the device's
\* answer to VIDIOC_QUERYCAP
CheckCapabilitiesStep(q, seen) ==
    LET s == checkDeviceCapabilities(CRun(cap, v4l, <<>>), q)
    IN /\ cap' = s.c
       /\ v4l' = s.k
       /\ c_run' = [reqs |-> s.reqs, env |-> NoEnv,
                    ret |-> IF s.ret THEN "running" ELSE "false",
                    failed |-> IF s.ret THEN "none" ELSE "checkDeviceCapabilities",
                    caps |-> seen,
                    starts |-> c_run.starts + 1]
       /\ cpc' = IF s.ret THEN "checkFormat" ELSE "idle"
       /\ fs' = FsInit
       /\ UNCHANGED <<dvars, ovars>>

StartCheckCapabilities ==
    /\ cpc = "idle"
    /\ c_run.ret = "none"
    /\ \E q \in CapsCases : CheckCapabilitiesStep(q, "none")

\* the same step, the answer kept in the trace
StartCheckCapabilitiesTraced ==
    /\ cpc = "idle"
    /\ c_run.ret = "none"
    /\ \E q \in CapsCases : CheckCapabilitiesStep(q, q)

StartCheckFormat ==
    /\ cpc = "checkFormat"
    /\ \E fmts \in FormatLists :
          \E cut \in 0..Len(fmts) :
             CStep("checkFormat", checkFormatHead(Now, SubSeq(fmts, 1, cut)),
                   [NoEnv EXCEPT !.fmts = fmts, !.cut = cut], "frameSizes")
    /\ fs' = FsInit

EnumFrameSize ==
    /\ cpc = "frameSizes"
    /\ fs.index < MaxSizes
    /\ \E d \in Frmsizes : fs' = FrmsizeNext(fs, d, cap.width, cap.height)
    /\ c_run' = [c_run EXCEPT !.reqs = Append(@, Req("ENUM_FRAMESIZES", fs.index))]
    /\ UNCHANGED <<cap, v4l, cpc>>
    /\ UNCHANGED <<dvars, ovars>>

EndFrameSizes ==
    /\ cpc = "frameSizes"
    /\ CStep("checkFormat", checkFormatTail(Now, fs), c_run.env, "setFormat")
    /\ fs' = [fs EXCEPT !.returned = IF FrmsizeResult(fs) THEN "true" ELSE "false",
                         !.uninterrupted = IF FrmsizeResult(fs) THEN "true" ELSE "false"]

\* a VIDIOC_ENUM_FRAMESIZES that a signal interrupts (-1, EINTR) where the
\* device had one more size d to report: the while loop ends as on any
\* other failure; uninterrupted is what the call would have returned
InterruptFrameSizes ==
    /\ cpc = "frameSizes"
    /\ fs.index < MaxSizes
    /\ CStep("checkFormat", checkFormatTail(Now, fs), c_run.env, "setFormat")
    /\ \E d \in Frmsizes :
          fs' = [fs EXCEPT
                   !.returned = IF FrmsizeResult(fs) THEN "true" ELSE "false",
                   !.uninterrupted =
                       IF FrmsizeResult(FrmsizeBody(fs, d, cap.width, cap.height))
                       THEN "true" ELSE "false"]

StartSetFormat ==
    /\ cpc = "setFormat"
    /\ \E ok \in BOOLEAN : CStep("setFormat", setFormat(Now, ok), NoEnv, "requestBuffers")
    /\ fs' = FsInit

StartRequestBuffers ==
    /\ cpc = "requestBuffers"
    /\ \E ok \in BOOLEAN, count \in 0..MaxBufs :
          /\ ~ok => count = 0
          /\ CStep("requestBuffers", requestBuffers(Now, ok, count),
                   [NoEnv EXCEPT !.count = IF ok THEN count ELSE -1], "mapBuffers")
    /\ fs' = FsInit

MapFailures(planes) ==
    {<<"none", 0, 0>>}
      \cup { <<"querybuf", i, 0>> : i \in 1..Len(planes) }
      \cup { f \in {"mmap"} \X (1..Len(planes)) \X (1..MaxPlanes) : f[3] <= planes[f[2]] }

\* the loop of mapBuffers issues VIDIOC_QUERYBUF for buffer j only when no
\* earlier buffer made it return
Queried(fail, j) ==
    \/ fail[1] = "none"
    \/ fail[1] = "querybuf" /\ j < fail[2]
    \/ fail[1] = "mmap" /\ j <= fail[2]

\* the driver's plane count of a buffer that is never queried is not an
\* input of the call: it is left at 1
StartMapBuffers ==
    /\ cpc = "mapBuffers"
    /\ \E planes \in [1..cap.buf_count -> 1..MaxPlanes] :
          \E fail \in MapFailures(planes) :
             /\ \A j \in 1..cap.buf_count : ~Queried(fail, j) => planes[j] = 1
             /\ CStep("mapBuffers", mapBuffers(Now, planes, fail),
                   [c_run.env EXCEPT !.planes = planes, !.fail = fail], "queueBuffers")
    /\ fs' = FsInit

StartQueueBuffers ==
    /\ cpc = "queueBuffers"
    /\ \E failAt \in 0..cap.buf_count :
          CStep("queueBuffers", queueBuffers(Now, failAt),
                [c_run.env EXCEPT !.fail = IF failAt = 0 THEN <<"none", 0, 0>>
                                           ELSE <<"qbuf", failAt, 0>>], "streamOn")
    /\ fs' = FsInit

StartStreamOn ==
    /\ cpc = "streamOn"
    /\ \E ok \in BOOLEAN : CStep("streamOn", streamOn(Now, ok), c_run.env, "idle")
    /\ fs' = FsInit

DisplayUnused ==
    /\ disp = DisplayInit(TRUE, TRUE, 3)
    /\ drm = DrmInit
    /\ d_last = NoCall
    /\ pc = "api"

CaptureSpecInit ==
    /\ \E w \in Dim, h \in Dim, n \in 1..MaxBufs, mp \in BOOLEAN :
          cap = CaptureInit(w, h, n, mp)
    /\ v4l = V4lInit
    /\ cpc = "idle"
    /\ c_run = RunInit
    /\ fs = FsInit
    /\ DisplayUnused
    /\ OthersUnused

CaptureNext ==
    \/ StartCheckCapabilities
    \/ StartCheckFormat
    \/ EnumFrameSize
    \/ EndFrameSizes
    \/ InterruptFrameSizes
    \/ StartSetFormat
    \/ StartRequestBuffers
    \/ StartMapBuffers
    \/ StartQueueBuffers
    \/ StartStreamOn

CaptureSpec == CaptureSpecInit /\ [][CaptureNext]_vars

\* start() called again on the session after a start() that mapBuffers made
\* fail: the pool is as that call left it
StartAgain ==
    /\ cpc = "idle"
    /\ c_run.failed = "mapBuffers"
    /\ c_run.starts < MaxStarts
    /\ \E q \in CapsCases : CheckCapabilitiesStep(q, "none")

RestartNext == CaptureNext \/ StartAgain

RestartSpec == CaptureSpecInit /\ [][RestartNext]_vars

\* start() with the device's capabilities kept in the trace
CapsNext ==
    \/ StartCheckCapabilitiesTraced
    \/ StartCheckFormat
    \/ EnumFrameSize
    \/ EndFrameSizes
    \/ InterruptFrameSizes
    \/ StartSetFormat
    \/ StartRequestBuffers
    \/ StartMapBuffers
    \/ StartQueueBuffers
    \/ StartStreamOn

CapsSpec == CaptureSpecInit /\ [][CapsNext]_vars

(***************************************************************************)
(* The life of a capture session: start() at most once, then stop() at     *)
(* most once, then the destructor.  c_run keeps what start() returned.     *)
(***************************************************************************)
CLifeStep(s, next) ==
    /\ cap' = s.c
    /\ v4l' = s.k
    /\ c_run' = [c_run EXCEPT !.reqs = s.reqs]
    /\ cpc' = next
    /\ fs' = fs
    /\ UNCHANGED <<dvars, ovars>>

CaptureLifeStop ==
    /\ cpc = "idle"
    /\ \E ok \in BOOLEAN : CLifeStep(stop(Now, ok), "stopped")

CaptureLifeDestroy ==
    /\ cpc \in {"idle", "stopped"}
    /\ CLifeStep(CaptureDestructor(Now), "gone")

CaptureLifeNext == CaptureNext \/ CaptureLifeStop \/ CaptureLifeDestroy

CaptureLifeSpec == CaptureSpecInit /\ [][CaptureLifeNext]_vars

(***************************************************************************)
(* The life of the sessions: construction, calls, destruction.             *)
(***************************************************************************)
OsStep(o) == os' = o /\ UNCHANGED <<dvars, cvars, xio, kms>>

CaptureConstruct ==
    /\ os.capture.state = "none"
    /\ \E conf \in CaptureConfigs, dev \in DeviceCases : OsStep(CaptureCtor(os, conf, dev))

CaptureUse ==
    /\ os.capture.state = "live"
    /\ os.capture.uses < MaxUses
    /\ OsStep([os EXCEPT !.capture.uses = @ + 1])

CaptureDestroy ==
    /\ os.capture.state = "live"
    /\ OsStep(CaptureDtor(os))

DisplayConstruct ==
    /\ os.display.state = "none"
    /\ \E valid \in BOOLEAN, card0 \in CardCases, card1 \in CardCases, setup \in SetupCases :
          OsStep(DisplayCtor(os, valid, card0, card1, setup))

DisplayUse ==
    /\ os.display.state = "live"
    /\ os.display.uses < MaxUses
    /\ OsStep([os EXCEPT !.display.uses = @ + 1])

DisplayDestroy ==
    /\ os.display.state = "live"
    /\ OsStep(DisplayDtor(os))

SessionInit ==
    /\ \E inherited \in Inherited : os = OsInit(inherited)
    /\ xio = XioInit
    /\ kms = KmsNone
    /\ DisplayUnused
    /\ CaptureUnused

SessionNext ==
    \/ CaptureConstruct
    \/ CaptureUse
    \/ CaptureDestroy
    \/ DisplayConstruct
    \/ DisplayUse
    \/ DisplayDestroy

SessionSpec == SessionInit /\ [][SessionNext]_vars

(***************************************************************************)
(* Calls of xioctl.  A signal interrupts one call MaxIntr times at most;   *)
(* the ioctl of a call that is under way is made in the end.               *)
(***************************************************************************)
XStep(x) == xio' = x /\ UNCHANGED <<dvars, cvars, os, kms>>

XCall ==
    /\ xio.pc # "calling"
    /\ \E req \in XRequests : XStep([XioInit EXCEPT !.pc = "calling", !.req = req])

XIoctl ==
    /\ xio.pc = "calling"
    /\ \E result \in IoctlResults :
          /\ result = "EINTR" =>
                Cardinality({i \in 1..Len(xio.results) : xio.results[i] = "EINTR"}) < MaxIntr
          /\ XStep(xioctlTurn(xio, result))

XioctlInit ==
    /\ xio = XioInit
    /\ os = OsInit({})
    /\ kms = KmsNone
    /\ DisplayUnused
    /\ CaptureUnused

XioctlNext == XCall \/ XIoctl

XioctlSpec == XioctlInit /\ [][XioctlNext]_vars /\ WF_vars(XIoctl)

(***************************************************************************)
(* initialize() on a card, as far as the CRTC and the plane go.            *)
(***************************************************************************)
KStep(k) == kms' = k /\ UNCHANGED <<dvars, cvars, os, xio>>

\* initialize() has returned false, or was not called yet
KmsIdle == {"new", "crtc_failed", "plane_failed", "rest_failed", "moved"}

\* initialize() with a connector and an encoder, up to the return of findCrtc
InitializeFindCrtc ==
    /\ kms.pc \in KmsIdle
    /\ kms.inits < MaxInits
    /\ LET r == findCrtcIn(kms.t, kms.o)
       IN  KStep([kms EXCEPT !.o = r.o, !.inits = @ + 1,
                             !.crtc_ids = Append(@, r.o.m_crtcId),
                             !.pc = IF r.ret THEN "crtc" ELSE "crtc_failed"])

InitializeFindPlane ==
    /\ kms.pc = "crtc"
    /\ LET r == findPlaneIn(kms.t, kms.o)
       IN  KStep([kms EXCEPT !.o = r.o,
                             !.plane_ids = Append(@, r.o.m_primaryPlaneId),
                             !.pc = IF r.ret THEN "plane" ELSE "plane_failed"])

\* the splash screen or test pattern and atomicModeSet: initialize() returns
\* true with m_display_initialized set, or false
InitializeRest ==
    /\ kms.pc = "plane"
    /\ \E ok \in BOOLEAN :
          KStep([kms EXCEPT !.pc = IF ok THEN "initialized" ELSE "rest_failed"])

\* between two initialize() calls the encoder is given another CRTC, or
\* none: the next findEncoder reads the new crtc_id
EncoderMoves ==
    /\ kms.pc \in KmsIdle \ {"new"}
    /\ ~kms.changed
    /\ kms.inits < MaxInits
    /\ \E c \in ({0} \cup CrtcIds) \ {kms.t.crtc_id} :
          KStep([kms EXCEPT !.t.crtc_id = c, !.changed = TRUE, !.pc = "moved"])

KmsDestroy ==
    /\ kms.pc \in KmsIdle \cup {"initialized"}
    /\ KStep([kms EXCEPT !.o = FreeKms(@), !.pc = "gone"])

TopologyInit ==
    /\ \E t \in Topologies : kms = KmsInit(t)
    /\ os = OsInit({})
    /\ xio = XioInit
    /\ DisplayUnused
    /\ CaptureUnused

TopologyNext ==
    \/ InitializeFindCrtc
    \/ InitializeFindPlane
    \/ InitializeRest
    \/ EncoderMoves
    \/ KmsDestroy

TopologySpec == TopologyInit /\ [][TopologyNext]_vars

(***************************************************************************)
(* initialize() on a card, as far as the connector goes.                   *)
(***************************************************************************)
ConIdle == {"new", "connector_failed", "rest_failed", "hotplug"}

\* initialize() up to the return of findConnector
InitializeFindConnector ==
    /\ kms.pc \in ConIdle
    /\ kms.inits < MaxInits
    /\ LET r == findConnectorIn(kms.t, kms.o)
       IN  KStep([kms EXCEPT !.o = r.o, !.inits = @ + 1,
                             !.pc = IF r.ret THEN "connector" ELSE "connector_failed"])

\* the rest of initialize(): it returns true with m_display_initialized set,
\* or false
InitializeAfterConnector ==
    /\ kms.pc = "connector"
    /\ \E ok \in BOOLEAN :
          KStep([kms EXCEPT !.pc = IF ok THEN "initialized" ELSE "rest_failed"])

\* between two initialize() calls displays are plugged or unplugged: the
\* connectors of the resource list answer differently
Hotplug ==
    /\ kms.pc \in ConIdle \ {"new", "hotplug"}
    /\ kms.inits < MaxInits
    /\ \E t \in ConnectorLists :
          /\ Len(t) = Len(kms.t)
          /\ t # kms.t
          /\ KStep([kms EXCEPT !.t = t, !.pc = "hotplug"])

ConDestroy ==
    /\ kms.pc \in ConIdle \cup {"initialized"}
    /\ KStep([kms EXCEPT !.o = FreeCon(@), !.pc = "gone"])

ConnectorInit ==
    /\ \E t \in ConnectorLists : kms = ConInit(t)
    /\ os = OsInit({})
    /\ xio = XioInit
    /\ DisplayUnused
    /\ CaptureUnused

ConnectorNext ==
    \/ InitializeFindConnector
    \/ InitializeAfterConnector
    \/ Hotplug
    \/ ConDestroy

ConnectorSpec == ConnectorInit /\ [][ConnectorNext]_vars

(***************************************************************************)
(* Claims about the flip-pending flag.                                     *)
(***************************************************************************)
\* C1: atomicUpdate called while flip-pending is true is rejected: scanout on
\* an initialized session that starts with the flag set returns failure and
\* hands no commit to the kernel.
C1_RejectedWhilePending ==
    (d_last.op = "scanout" /\ disp.m_display_initialized /\ d_last.was_pending)
        => (~d_last.ret /\ ~HasReq(d_last.reqs, "commit"))

\* C2 as stated: the flag goes from false to true only by a successful
\* non-blocking commit; the blocking mode-set commit never sets it.
C2_OnlyNonBlockingSets ==
    (~d_last.was_pending /\ disp.m_frame.flip_pending)
        => \E i \in 1..Len(d_last.reqs) :
              /\ d_last.reqs[i].req = "commit"
              /\ d_last.reqs[i].ok
              /\ d_last.reqs[i].nonblock

\* C2 amended: the flag goes from false to true only in a step whose commit
\* the kernel accepted, the mode-set commit of initialize or the non-blocking
\* commit of atomicUpdate; a failed commit and every other step leave it false.
C2_OnlyAcceptedCommitSets ==
    (~d_last.was_pending /\ disp.m_frame.flip_pending)
        => /\ d_last.op \in {"initialize", "scanout"}
           /\ d_last.ret
           /\ \E i \in 1..Len(d_last.reqs) :
                 d_last.reqs[i].req = "commit" /\ d_last.reqs[i].ok

\* a scanout on an idle session whose commit was accepted
C2_Witness ==
    /\ ~d_last.was_pending
    /\ disp.m_frame.flip_pending
    /\ d_last.op = "scanout"

\* C3: the flag goes from true to false only in a step in which the
\* completion callback ran, that is in a successful handleEvent.
C3_OnlyCallbackClears ==
    (d_last.was_pending /\ ~disp.m_frame.flip_pending)
        => /\ d_last.op = "handleEvent"
           /\ d_last.ret
           /\ HasReq(d_last.reqs, "eventCb")

\* a handleEvent that found the flag set and cleared it
C3_Witness ==
    /\ d_last.was_pending
    /\ ~disp.m_frame.flip_pending
    /\ d_last.op = "handleEvent"

\* C4: in the loop of main() no commit is handed to the kernel while an
\* accepted one still waits for its callback, and at most one accepted commit
\* is outstanding, the mode-set commit included.
C4_OneOutstanding ==
    /\ Outstanding(drm) <= 1
    /\ HasReq(d_last.reqs, "commit") => d_last.was_outstanding = 0

\* a plane update accepted after the mode-set commit completed
C4_Witness ==
    /\ d_last.op = "scanout"
    /\ d_last.ret
    /\ Outstanding(drm) = 1
    /\ disp.m_frame.count >= 1

(***************************************************************************)
(* Claims about the capture session.                                       *)
(***************************************************************************)
\* the requests of the running start() that are named name
Asked(name) == { i \in 1..Len(c_run.reqs) : c_run.reqs[i].req = name }

\* the addresses the mmap requests of the running start() returned
Mapped == { c_run.reqs[i].arg : i \in { j \in Asked("mmap") : c_run.reqs[j].arg # 0 } }

Unmaps(a) == { i \in Asked("munmap") : c_run.reqs[i].arg = a }

\* C5: when mapBuffers returns false because an mmap of some plane failed,
\* no plane remains mapped, and every plane mapped earlier in the call,
\* whatever the plane count of each buffer, was unmapped exactly once.
C5_FullUnwind ==
    (c_run.failed = "mapBuffers" /\ c_run.env.fail[1] = "mmap") =>
        /\ v4l.mapped = {}
        /\ \A a \in Mapped : Cardinality(Unmaps(a)) = 1

\* C5 where every buffer has as many planes as the one whose mapping failed
C5_EqualPlaneCounts ==
    (\E i, j \in 1..Len(c_run.env.planes) : c_run.env.planes[i] # c_run.env.planes[j])
        \/ C5_FullUnwind

\* C6: for a single stepwise descriptor checkFormatSize accepts exactly when,
\* for the width and for the height, min <= requested <= max and
\* (requested - min) mod step = 0.
C6_StepwiseFromMin ==
    (fs.returned # "none" /\ fs.index = 1 /\ fs.kinds = {"stepwise"}) =>
        (fs.returned = "true" <=> fs.offered)

\* C7: for a non-empty list of discrete descriptors checkFormatSize accepts
\* exactly when one listed entry has both the requested width and the
\* requested height.
C7_DiscreteExactPair ==
    (fs.returned # "none" /\ fs.index >= 1 /\ fs.kinds = {"discrete"}) =>
        (fs.returned = "true" <=> fs.offered)

\* C7 happens: two discrete entries, one with the requested width and one
\* with the requested height, none with both, and the size is rejected.
C7_Witness ==
    /\ fs.returned = "false"
    /\ fs.index = 2
    /\ fs.kinds = {"discrete"}
    /\ fs.width_listed
    /\ fs.height_listed
    /\ ~fs.offered

\* C8: when the first enumerate-frame-sizes request fails, checkFormatSize
\* accepts whatever width and height are requested.
C8_NoSizesAcceptsAll ==
    (fs.returned # "none" /\ fs.index = 0) => fs.returned = "true"

\* C8 happens: the enumeration ended at once and the size was accepted.
C8_Witness ==
    /\ fs.returned = "true"
    /\ fs.index = 0
    /\ cap.width # cap.height

\* C9: a continuous descriptor accepts exactly the sizes of its range, and
\* with several descriptors the size is accepted exactly when at least one
\* of them accepts it.
C9_AnyDescriptorAccepts ==
    (/\ fs.returned # "none"
     /\ (fs.index = 1 /\ fs.kinds = {"continuous"}) \/ fs.index >= 2) =>
        (fs.returned = "true" <=> fs.offered)

\* C9 where no stepwise descriptor is among those reported
C9_WithoutStepwise == "stepwise" \in fs.kinds \/ C9_AnyDescriptorAccepts

\* C10: when the device lists the requested fourcc and none of its frame
\* sizes is the requested one, checkFormat fails and start() returns false
\* without set-format, request-buffers, a mapping, queue-buffer or stream-on.
C10_SizeMismatchStopsStart ==
    (fs.returned # "none" /\ FormatFound(c_run.env.fmts) /\ fs.index >= 1 /\ ~fs.offered) =>
        /\ c_run.ret = "false"
        /\ c_run.failed = "checkFormat"
        /\ cpc = "idle"
        /\ \A n \in {"S_FMT", "REQBUFS", "QUERYBUF", "mmap", "QBUF", "STREAMON"} : Asked(n) = {}

\* C10 where no stepwise descriptor is among those reported
C10_WithoutStepwise == "stepwise" \in fs.kinds \/ C10_SizeMismatchStopsStart

(***************************************************************************)
(* Claims about the sequence of start().                                   *)
(***************************************************************************)
\* the place of a request, and of a helper, in the sequence of start()
Rank(name) ==
    CASE name \in {"QUERYCAP", "checkDeviceCapabilities"} -> 1
      [] name \in {"ENUM_FMT"} -> 2
      [] name \in {"ENUM_FRAMESIZES", "checkFormat", "frameSizes"} -> 3
      [] name \in {"S_FMT", "setFormat"} -> 4
      [] name \in {"REQBUFS", "requestBuffers"} -> 5
      [] name \in {"QUERYBUF", "mmap", "munmap", "mapBuffers"} -> 6
      [] name \in {"QBUF", "queueBuffers"} -> 7
      [] name \in {"STREAMON", "streamOn"} -> 8
      [] OTHER -> 9

\* the helper named step ran in this start() and returned true
Succeeded(step) ==
    CASE c_run.ret = "running" -> Rank(step) < Rank(cpc)
      [] c_run.ret = "false"   -> Rank(step) < Rank(c_run.failed)
      [] c_run.ret = "true"    -> TRUE
      [] OTHER                 -> FALSE

IsQbuf(r) == r.req = "QBUF"

IsQuerybuf(r) == r.req = "QUERYBUF"

\* the indices of the requests named by the test, in the order of issue
Indices(Test(_)) ==
    LET q == SelectSeq(c_run.reqs, Test) IN [n \in 1..Len(q) |-> q[n].arg]

UpTo(n) == [i \in 1..n |-> i - 1]

\* C11: the requests of start() come in the order of its helpers, a helper
\* runs only after every earlier one succeeded, stream-on comes only after
\* every buffer was queued, and after a false return the device does not
\* stream.
C11_StartOrder ==
    /\ \A i, j \in 1..Len(c_run.reqs) :
          i < j => Rank(c_run.reqs[i].req) <= Rank(c_run.reqs[j].req)
    /\ \A r \in 1..5 :
          (\E i \in 1..Len(c_run.reqs) : Rank(c_run.reqs[i].req) > r)
             => \E i \in 1..Len(c_run.reqs) : Rank(c_run.reqs[i].req) = r
    /\ c_run.failed # "none" =>
          \A i \in 1..Len(c_run.reqs) : Rank(c_run.reqs[i].req) <= Rank(c_run.failed)
    /\ Asked("STREAMON") # {} =>
          /\ Indices(IsQbuf) = UpTo(cap.buf_count)
          /\ v4l.queued = UpTo(cap.buf_count)
    /\ c_run.ret = "false" => ~v4l.streaming
    /\ v4l.streaming => c_run.ret = "true"

\* C11 happens: a start() that failed at stream-on after queueing two buffers
\* or more.
C11_Witness ==
    /\ c_run.ret = "false"
    /\ c_run.failed = "streamOn"
    /\ Len(v4l.queued) >= 2

\* C12: when the driver answers request-buffers with a count c other than the
\* requested one, requestBuffers succeeds, the pool has c entries, and
\* mapBuffers and queueBuffers query, map and queue the indices 0..c-1 only.
Adjusted ==
    /\ c_run.env.count >= 0
    /\ \E i \in Asked("REQBUFS") : c_run.reqs[i].arg # c_run.env.count

C13_QueueInOrder ==
    /\ \E n \in 0..cap.buf_count : Indices(IsQbuf) = UpTo(n)
    /\ Succeeded("queueBuffers") => Indices(IsQbuf) = UpTo(cap.buf_count)
    /\ c_run.failed = "queueBuffers" =>
          /\ c_run.env.fail[1] = "qbuf"
          /\ Indices(IsQbuf) = UpTo(c_run.env.fail[2])
          /\ v4l.queued = UpTo(c_run.env.fail[2] - 1)

\* C13 happens: of three buffers the second could not be queued.
C13_Witness ==
    /\ c_run.failed = "queueBuffers"
    /\ cap.buf_count = 3
    /\ c_run.env.fail[2] = 2

(***************************************************************************)
(* Claims about the device descriptors.                                    *)
(***************************************************************************)
\* C14: for every invalid capture config the construction fails before any
\* device I/O: the device was not opened, no descriptor is left open.
C14_InvalidConfigNoOpen ==
    (os.capture.state = "failed" /\ os.capture.conf \in CaptureConfigs
        /\ ~ConfigAccepted(os.capture.conf)) =>
            /\ os.capture.fd = -1
            /\ os.capture.fd \notin os.fds

\* the close calls made by one function on one descriptor
ClosedBy(by, fd) == { i \in 1..Len(os.closes) : os.closes[i] = [by |-> by, fd |-> fd] }

\* C15: a destroyed session, whatever descriptor its open returned and
\* whatever ran in between, had its descriptor closed exactly once by its
\* destructor.
C15_ClosedOnce ==
    /\ os.capture.state = "gone" => Cardinality(ClosedBy("~Capture", os.capture.fd)) = 1
    /\ os.display.state = "gone" => Cardinality(ClosedBy("~Display", os.display.fd)) = 1

\* C15 for the Capture session alone
C15_CaptureClosedOnce ==
    os.capture.state = "gone" => Cardinality(ClosedBy("~Capture", os.capture.fd)) = 1

\* C15 for a Display session whose descriptor is not 0
C15_DisplayNonZeroClosedOnce ==
    (os.display.state = "gone" /\ os.display.fd # 0)
        => Cardinality(ClosedBy("~Display", os.display.fd)) = 1

(***************************************************************************)
(* Claims about the retry on signal interruption.                          *)
(***************************************************************************)
\* every ioctl of the call but the last was interrupted; the call returned
\* at the first ioctl that was not, true when that one gave 0
RetryOnlyOnEintr ==
    /\ \A i \in 1..(Len(xio.results) - 1) : xio.results[i] = "EINTR"
    /\ xio.pc = "calling" => \A i \in 1..Len(xio.results) : xio.results[i] = "EINTR"
    /\ xio.pc = "returned" =>
          /\ Len(xio.results) >= 1
          /\ xio.results[Len(xio.results)] # "EINTR"
          /\ xio.ret <=> xio.results[Len(xio.results)] = "ok"

\* C16: xioctl makes the call again exactly when it failed with EINTR,
\* returns true at the first call that succeeds and false at the first
\* failure with another error; when the interruptions stop it returns.
C16_RetryOnlyOnEintr ==
    /\ []RetryOnlyOnEintr
    /\ (xio.pc = "calling") ~> (xio.pc = "returned")

\* C16 happens: a call interrupted twice or more that then succeeded.
C16_Witness ==
    /\ xio.pc = "returned"
    /\ xio.ret
    /\ Len(xio.results) >= 3

\* C17: the enumerations of formats and of frame sizes retry on a signal
\* interruption like every other request: an interrupted request leaves the
\* result of checkFormat and of start() as it is without the interruption.
C17_EnumerationsRetry ==
    /\ fs.returned # "none" => fs.returned = fs.uninterrupted
    /\ (c_run.failed = "checkFormat" /\ fs.returned = "none")
          => ~FormatFound(c_run.env.fmts)

(***************************************************************************)
(* Claims about the choice of the CRTC and of the plane.                   *)
(***************************************************************************)
\* the plane at i of card t is compatible with the CRTC at crtc_index, its
\* "type" property is PRIMARY and it lists the camera format
Qualifies(t, i, crtc_index) ==
    /\ t.planes[i].got
    /\ crtc_index \in t.planes[i].crtcs
    /\ t.planes[i].type # "no"
    /\ t.planes[i].format

\* the first such plane in scan order, 0 when there is none
FirstQualifying(t, crtc_index) ==
    IF \E i \in 1..Len(t.planes) : Qualifies(t, i, crtc_index)
    THEN CHOOSE i \in 1..Len(t.planes) :
            /\ Qualifies(t, i, crtc_index)
            /\ \A j \in 1..(i - 1) : ~Qualifies(t, j, crtc_index)
    ELSE 0

\* findPlane has just returned
FoundPlane == kms.pc \in {"plane", "plane_failed"}

PrimaryOnly ==
    LET crtc_index == CrtcIndex(kms.o.m_crtcId)
    IN  /\ kms.pc = "plane" =>
              \E i \in 1..Len(kms.t.planes) :
                 /\ kms.o.m_primaryPlaneId = PlaneIdAt(i)
                 /\ kms.t.planes[i].got
                 /\ kms.t.planes[i].type # "no"
        /\ FirstQualifying(kms.t, crtc_index) = 0 =>
              (kms.pc = "plane_failed" /\ kms.o.m_primaryPlaneId = 0)

\* C18: findPlane never selects a plane whose "type" property is not PRIMARY,
\* whatever its CRTC bitmask and its formats; when no PRIMARY plane
\* qualifies, findPlane fails and leaves no plane id set.
C18_PrimaryOnly == FoundPlane => PrimaryOnly

\* C18 for the first findPlane of a Display
C18_FirstCall == (FoundPlane /\ kms.o.plane_calls = 1) => PrimaryOnly

FirstKeptOthersFreed ==
    LET first == FirstQualifying(kms.t, CrtcIndex(kms.o.m_crtcId))
    IN  /\ FoundPlane =>
           /\ first # 0 =>
                 (kms.pc = "plane" /\ kms.o.m_primaryPlaneId = PlaneIdAt(first))
           /\ kms.o.planes_out =
                 IF kms.pc = "plane" THEN {kms.o.m_drmPrimaryPlane} ELSE {}
        /\ kms.pc = "gone" => kms.o.planes_out = {}

\* C19: for every plane list findPlane resolves to the first plane in scan
\* order that is compatible with the chosen CRTC, PRIMARY and lists the
\* camera format; when it returns, the only plane handle still held is the
\* kept one, and after the destructor no plane handle is held.
C19_FirstKeptOthersFreed == FirstKeptOthersFreed

\* C19 for a Display whose findPlane was called once at most
C19_FirstCall == kms.o.plane_calls <= 1 => FirstKeptOthersFreed

\* C20: on a card that did not change, every findCrtc leaves the same CRTC
\* id as the first one, and every findPlane the same plane id as the first.
C20_SameIdsTwice ==
    ~kms.changed =>
        /\ \A i \in DOMAIN kms.crtc_ids : kms.crtc_ids[i] = kms.crtc_ids[1]
        /\ \A i \in DOMAIN kms.plane_ids : kms.plane_ids[i] = kms.plane_ids[1]

\* findCrtc and findPlane were both called twice on an unchanged card and a
\* plane is chosen
C20_Witness ==
    /\ ~kms.changed
    /\ Len(kms.crtc_ids) = 2
    /\ Len(kms.plane_ids) = 2
    /\ kms.plane_ids[2] # 0

(***************************************************************************)
(* Claims about the choice of the connector.                               *)
(***************************************************************************)
\* the first connector in list order that is connected and has a mode, 0
\* when there is none
FirstConnector(t) ==
    IF \E i \in 1..Len(t) : ConnectorOk_NoModes(t[i]) /\ t[i].modes
    THEN CHOOSE i \in 1..Len(t) :
            /\ ConnectorOk_NoModes(t[i]) /\ t[i].modes
            /\ \A j \in 1..(i - 1) : ~(ConnectorOk_NoModes(t[j]) /\ t[j].modes)
    ELSE 0

\* findConnector has just returned
FoundConnector == kms.pc \in {"connector", "connector_failed"}

\* what findConnector leaves, held being the connector handles not freed
FirstConnectorKept(held) ==
    LET first == FirstConnector(kms.t)
    IN  IF first # 0
        THEN /\ kms.pc = "connector"
             /\ kms.o.m_connectorId = ConnectorIdAt(first)
             /\ kms.o.m_drmConnector = <<kms.o.connector_calls, first>>
             /\ kms.o.m_drmConnector \in held
             /\ \A i \in 1..(first - 1) : <<kms.o.connector_calls, i>> \notin held
        ELSE /\ kms.pc = "connector_failed"
             /\ kms.o.m_drmConnector = <<>>
             /\ held = {}

\* C21: findConnector selects the first connector in list order that is
\* connected and has at least one mode; the connector handles examined
\* before it are freed, and when no connector qualifies findConnector fails
\* and no connector handle is held.
C21_FirstConnectorKept == FoundConnector => FirstConnectorKept(kms.o.conns_out)

\* C21 for the first findConnector of a Display
C21_FirstCall ==
    (FoundConnector /\ kms.o.connector_calls = 1) => FirstConnectorKept(kms.o.conns_out)

\* C21 for the handles that the returning call obtained itself
C21_OwnHandles ==
    FoundConnector =>
        FirstConnectorKept({h \in kms.o.conns_out : h[1] = kms.o.connector_calls})

(***************************************************************************)
(* Claims about the choice of the CRTC.                                    *)
(***************************************************************************)
\* the CRTCs of card t whose bit is set in the encoder's mask and that
\* drmModeGetCrtc answers for
PossibleCrtcs(t) == t.possible_crtcs \cap t.crtcs_ok

\* findCrtc has just returned
FoundCrtc == kms.pc \in {"crtc", "crtc_failed"}

CurrentElseFirstPossible ==
    IF kms.t.crtc_id # 0 /\ CrtcIndex(kms.t.crtc_id) \in kms.t.crtcs_ok
    THEN kms.pc = "crtc" /\ kms.o.m_crtcId = kms.t.crtc_id
    ELSE IF PossibleCrtcs(kms.t) # {}
         THEN /\ kms.pc = "crtc"
              /\ CrtcIndex(kms.o.m_crtcId) \in PossibleCrtcs(kms.t)
              /\ \A i \in PossibleCrtcs(kms.t) : CrtcIndex(kms.o.m_crtcId) <= i
         ELSE kms.pc = "crtc_failed"

\* C22: findCrtc chooses the encoder's current CRTC when it has one that
\* can be fetched; otherwise the first CRTC of the resource list whose bit
\* is set in the encoder's possible_crtcs and that can be fetched, never one
\* whose bit is clear; it fails when there is none.
C22_CurrentElseFirstPossible == FoundCrtc => CurrentElseFirstPossible

\* C22 for the first findCrtc of a Display
C22_FirstCall == (FoundCrtc /\ Len(kms.crtc_ids) = 1) => CurrentElseFirstPossible

(***************************************************************************)
(* Claims about the probing of the DRM devices.                            *)
(***************************************************************************)
\* the place of the first device that opens with a connector and a CRTC
\* among the answers c, 0 when there is none
FirstSuitable(c) ==
    IF \E i \in 1..Len(c) : c[i] = "suitable"
    THEN CHOOSE i \in 1..Len(c) : c[i] = "suitable" /\ \A j \in 1..(i - 1) : c[j] # "suitable"
    ELSE 0

\* C25: the constructor tries the device paths in order and keeps the first
\* that opens and lists at least one connector and one CRTC; a device that
\* was opened and not kept is closed and its resource list freed; when no
\* device is kept, construction fails and no descriptor it opened is open.
C25_FirstSuitableCard ==
    (os.display.state \in {"live", "failed"} /\ os.display.cards # <<>>) =>
        LET first == FirstSuitable(os.display.cards)
        IN  /\ os.display.card = first
            /\ Len(os.display.cards) = IF first = 0 THEN 2 ELSE first
            /\ first = 0 => os.display.state = "failed"
            /\ os.display.state = "live" => os.display.fd \in os.fds
            /\ os.display.held = IF os.display.state = "live" THEN 1 ELSE 0
            /\ os.display.res = IF os.display.state = "live" THEN 1 ELSE 0

\* the first device opened without a connector or a CRTC, the second is kept
C25_Witness ==
    /\ os.display.state = "live"
    /\ os.display.cards = <<"empty", "suitable">>

\* no device is kept although both opened
C25_WitnessNone ==
    /\ os.display.state = "failed"
    /\ os.display.cards = <<"empty", "no_resources">>

(***************************************************************************)
(* Claims about the mode-set transaction.                                  *)
(***************************************************************************)
\* the places of the call's trace that hold a request of that name
Issued(name) == { i \in 1..Len(d_last.reqs) : d_last.reqs[i].req = name }

\* a property lookup of the call that found no id
LookupFailed == { i \in Issued("getProperty") : ~d_last.reqs[i].ok }

\* C23: when atomicModeSet cannot find the id of a required property, it
\* submits no commit, releases the atomic request once and the mode blob
\* once, returns failure, and leaves the flip-pending flag and the
\* initialized flag as they were.
C23_MissingPropertyAborts ==
    (d_last.op = "initialize" /\ LookupFailed # {}) =>
        /\ Issued("commit") = {}
        /\ Cardinality(Issued("atomicFree")) = 1
        /\ Cardinality(Issued("destroyBlob")) = 1
        /\ \A i \in Issued("atomicFree") \cup Issued("destroyBlob") :
              \A j \in LookupFailed : j < i
        /\ ~d_last.ret
        /\ disp.m_frame.flip_pending = d_last.was_pending
        /\ ~disp.m_display_initialized

\* a lookup failed after the transaction already held properties
C23_Witness ==
    /\ d_last.op = "initialize"
    /\ LookupFailed # {}
    /\ Cardinality(Issued("getProperty")) = Len(PropertyGroups)

(***************************************************************************)
(* Claims about the completion callback.                                   *)
(***************************************************************************)
\* C24: every completion callback, the first included, clears flip-pending,
\* advances the stored counter by one and stores the timestamp of its event;
\* the first computes no refresh rate, every later one computes it against
\* the timestamp of the callback just before it.
C24_CallbackStoresTimestamp ==
    (d_last.op = "handleEvent" /\ HasReq(d_last.reqs, "eventCb")) =>
        /\ ~disp.m_frame.flip_pending
        /\ disp.m_frame.count = drm.cb.n
        /\ <<disp.m_frame.sec, disp.m_frame.usec>> = drm.cb.last
        /\ drm.cb.basis = drm.cb.prev

\* C24 without the timestamp: the flag is cleared, the counter is the number
\* of callbacks, the first callback computes no rate and the later ones do
C24_FlagAndCounter ==
    (d_last.op = "handleEvent" /\ HasReq(d_last.reqs, "eventCb")) =>
        /\ ~disp.m_frame.flip_pending
        /\ disp.m_frame.count = drm.cb.n
        /\ (drm.cb.basis = <<>>) <=> (drm.cb.n = 1)

\* C24 from the third callback on: the second callback is the first to store
\* a timestamp
C24_FromThirdCallback ==
    (d_last.op = "handleEvent" /\ HasReq(d_last.reqs, "eventCb") /\ drm.cb.n >= 2) =>
        /\ <<disp.m_frame.sec, disp.m_frame.usec>> = drm.cb.last
        /\ drm.cb.n >= 3 => drm.cb.basis = drm.cb.prev

(***************************************************************************)
(* Claims about the test pattern.                                          *)
(***************************************************************************)
\* the places of the call's trace that hold a request of that name that
\* succeeded
Succeeds(name) == { i \in Issued(name) : d_last.reqs[i].ok }

\* every request of the first name stands before every one of the second
Before(first, second) == \A i \in Succeeds(first), j \in Succeeds(second) : i < j

\* C26 as stated: in createTestPattern the dumb buffer is mapped, filled and
\* unmapped before the framebuffer is registered, and no CPU mapping of the
\* buffer remains on any exit path.
C26_UnmappedBeforeRegistered ==
    /\ drm.maps = 0
    /\ (d_last.op = "initialize" /\ Succeeds("addfb") # {}) =>
          /\ Succeeds("mmap") # {} /\ Succeeds("munmap") # {}
          /\ Before("mmap", "fill") /\ Before("fill", "munmap")
          /\ Before("munmap", "addfb")

\* C26, amended: the framebuffer is registered before the buffer is mapped;
\* a buffer that was mapped is filled and unmapped, in that order, before
\* createTestPattern returns, and no CPU mapping remains on any exit path.
C26_RegisteredThenMappedAndUnmapped ==
    /\ drm.maps = 0
    /\ (d_last.op = "initialize" /\ Succeeds("mmap") # {}) =>
          /\ Cardinality(Succeeds("addfb")) = 1
          /\ Cardinality(Succeeds("munmap")) = 1
          /\ Before("addfb", "mmap")
          /\ Before("mmap", "fill") /\ Before("fill", "munmap")

\* a createTestPattern that mapped its buffer has returned
C26_Witness == d_last.op = "initialize" /\ Succeeds("mmap") # {}

(***************************************************************************)
(* Claims about the framebuffers.                                          *)
(***************************************************************************)
\* the places of the call's trace that hold a request of that name for fb
IssuedFor(name, fb) == { i \in Succeeds(name) : d_last.reqs[i].fb = fb }

\* the framebuffers the session keeps for its pattern or splash screen
PatternFbs == {disp.m_testPatern_FbId, disp.m_splashscreen_FbId} \ {0}

C28_DeregisteredOnce == \A i \in Issued("rmfb") : d_last.reqs[i].ok

\* C28, side lemma: in test-pattern mode the claim holds, the destructor
\* included
C28_TestPatternMode == disp.testing_display => C28_DeregisteredOnce

\* C28, side lemma: the destructor of a splash-screen session that holds a
\* pattern deregisters its id twice
C28_SplashTwice ==
    (d_last.op = "destroy" /\ ~disp.testing_display /\ disp.m_testPatern_FbId > 0) =>
        /\ Cardinality(Issued("rmfb")) = 2
        /\ \A i, j \in Issued("rmfb") : d_last.reqs[i].fb = d_last.reqs[j].fb

(***************************************************************************)
(* C29: the destructor releases the objects the session acquired in the    *)
(* strict reverse of their acquisition order: descriptor, resource list,   *)
(* GBM device, connector, encoder, CRTC, plane and pattern framebuffer are *)
(* acquired in that order, each is released, and each is released before   *)
(* every object acquired earlier than it.                                  *)
(***************************************************************************)
C29_ReverseAcquisitionOrder ==
    d_last.op = "destroy" =>
        /\ \A n \in {"close", "freeResources", "gbmDestroy"} : Issued(n) # {}
        /\ \A i, j \in 1..Len(d_last.reqs) :
              i < j => AcquiredAt(d_last.reqs[i].req) >= AcquiredAt(d_last.reqs[j].req)

\* C29, side lemma: the releases other than that of the resource list are
\* made in the reverse of the acquisition order
C29_ReverseButResources ==
    d_last.op = "destroy" =>
        \A i, j \in 1..Len(d_last.reqs) \ Issued("freeResources") :
            i < j => AcquiredAt(d_last.reqs[i].req) >= AcquiredAt(d_last.reqs[j].req)

\* C29, side lemma: the resource list is released before the GBM device,
\* which was created after it
C29_ResourcesBeforeGbm ==
    d_last.op = "destroy" =>
        \A i \in Issued("freeResources"), j \in Issued("gbmDestroy") : i < j

(***************************************************************************)
(* C30: every capture-buffer plane mapping created by a successful start() *)
(* is destroyed by stop() or, at the latest, by the destructor: after the  *)
(* session is destroyed no plane mapping created by it remains.            *)
(***************************************************************************)
C30_MappingsDestroyed == (cpc = "gone" /\ c_run.ret = "true") => v4l.mapped = {}

\* C30, side lemma: neither stop() nor the destructor unmaps anything, so a
\* destroyed session leaves every mapping its start() created
C30_NothingUnmapped ==
    (cpc = "gone" /\ c_run.ret = "true") =>
        /\ Cardinality(v4l.mapped) >= cap.buf_count
        /\ \A i \in 1..cap.buf_count :
              \A p \in 1..Len(cap.m_capture_buf[i]) :
                  cap.m_capture_buf[i][p] # 0 => cap.m_capture_buf[i][p] \in v4l.mapped

(***************************************************************************)
(* C31: framebuffer creation from a camera buffer fails unless the         *)
(* configured camera format is NV12, and creation from a GPU buffer fails  *)
(* unless the configured GPU format is XR24; in both failure cases no      *)
(* kernel handle or framebuffer has been created (no request was issued).  *)
(***************************************************************************)
C31_OnlyWhitelistedFormats ==
    /\ (d_last.op = "createFbFromFd" /\ disp.conf.cam # "NV12") =>
          d_last.ret = 0 /\ d_last.reqs = <<>>
    /\ (d_last.op = "createFbFromGbmBo" /\ disp.conf.gpu # "XR24") =>
          d_last.ret = 0 /\ d_last.reqs = <<>>
    /\ (d_last.op \in {"createFbFromFd", "createFbFromGbmBo"} /\ d_last.ret = 0) =>
          Succeeds("addfb") = {}

\* C31: a camera-buffer creation refused for its format on a session that
\* holds a framebuffer, made by a GPU-buffer creation, in a configuration
\* whose GPU format is the whitelisted one
C31_Witness ==
    /\ d_last.op = "createFbFromFd"
    /\ disp.conf.cam # "NV12" /\ disp.conf.gpu = "XR24"
    /\ d_last.ret = 0
    /\ drm.fbs # {}

\* C31: a GPU-buffer creation refused for its format
C31_WitnessGpu ==
    /\ d_last.op = "createFbFromGbmBo"
    /\ disp.conf.gpu # "XR24"
    /\ d_last.ret = 0

(***************************************************************************)
(* C32: checkDeviceCapabilities fails unless the device advertises         *)
(* streaming, and sets the multi-planar flag exactly when the device       *)
(* advertises multi-planar capture; on a device that advertises streaming  *)
(* but not multi-planar capture, start() returns failure without           *)
(* requesting, mapping or queuing any buffer and without stream-on.        *)
(***************************************************************************)
BufferRequests == {"REQBUFS", "QUERYBUF", "mmap", "QBUF", "STREAMON"}

NoBufferRequest == \A n \in BufferRequests : ~HasReq(c_run.reqs, n)

C32_FailsUnlessStreaming ==
    c_run.caps \in {"querycap_fails", "no_streaming"} =>
        c_run.ret = "false" /\ c_run.failed = "checkDeviceCapabilities"

C32_MultiPlanarOnly ==
    /\ C32_FailsUnlessStreaming
    /\ c_run.caps \in {"streaming", "streaming_mplane"} =>
          (cap.m_is_mp_device <=> c_run.caps = "streaming_mplane")
    /\ c_run.caps = "streaming" =>
          /\ NoBufferRequest
          /\ c_run.ret # "true"

\* C32, side lemma: while the flag reads false on a device without
\* multi-planar capture, nothing is requested and start() fails at setFormat
C32_WhenFlagReadsFalse ==
    (c_run.caps = "streaming" /\ ~cap.m_is_mp_device) =>
        /\ NoBufferRequest
        /\ c_run.ret # "true"
        /\ c_run.ret = "false" => c_run.failed \in {"checkFormat", "setFormat"}

\* C32, side lemma: the flag is never cleared, so a device with multi-planar
\* capture always leaves it set
C32_SetOnMultiPlanar == c_run.caps = "streaming_mplane" => cap.m_is_mp_device

(***************************************************************************)
(* C33: checkFormat() fails whenever the requested fourcc is not among the *)
(* formats the device enumerates (including when it enumerates none), and  *)
(* in that case frame sizes are not enumerated; it succeeds only if the    *)
(* fourcc is listed and checkFormatSize accepts.                           *)
(***************************************************************************)
\* checkFormat() has run or is running: the trace holds the device's formats
CheckFormatSeen == c_run.failed = "checkFormat" \/ cpc \in {"frameSizes", "setFormat"}

\* the formats the enumeration loop received
Enumerated == SubSeq(c_run.env.fmts, 1, c_run.env.cut)

RequestedIn(fmts) == \E i \in 1..Len(fmts) : fmts[i] = Fourcc

C33_AbsentFormatFails ==
    CheckFormatSeen =>
        /\ (~RequestedIn(c_run.env.fmts) \/ ~RequestedIn(Enumerated)) =>
              /\ c_run.ret = "false" /\ c_run.failed = "checkFormat"
              /\ ~HasReq(c_run.reqs, "ENUM_FRAMESIZES")
        /\ cpc = "setFormat" =>
              /\ RequestedIn(Enumerated) /\ RequestedIn(c_run.env.fmts)
              /\ fs.returned = "true"

\* C33: checkFormat() failed on a device that enumerates formats, none of
\* them the requested one
C33_Witness ==
    /\ c_run.failed = "checkFormat"
    /\ c_run.env.fmts # <<>> /\ c_run.env.cut = Len(c_run.env.fmts)
    /\ ~RequestedIn(c_run.env.fmts)
    /\ HasReq(c_run.reqs, "ENUM_FMT")

(***************************************************************************)
(* C34: the display session becomes initialized only after connector,      *)
(* encoder, CRTC and plane resolution, pattern/splash framebuffer creation *)
(* and the mode commit have all succeeded, in that order; while it is not  *)
(* initialized every scanout() is rejected without registering a           *)
(* framebuffer or submitting a commit; once initialized a further          *)
(* initialize() returns success without issuing any device request.        *)
(***************************************************************************)
InitializeSteps ==
    << "findConnector", "findEncoder", "findCrtc", "findPlane", "pattern", "atomicModeSet" >>

\* the last call was the initialize() that set the flag
BecameInitialized ==
    d_last.op = "initialize" /\ ~d_last.was_initialized /\ disp.m_display_initialized

C34_InitializedAfterAllSteps ==
    /\ BecameInitialized =>
          /\ \A n \in 1..Len(InitializeSteps) :
                Cardinality(Succeeds(InitializeSteps[n])) = 1
                    /\ Issued(InitializeSteps[n]) = Succeeds(InitializeSteps[n])
          /\ \A n \in 1..(Len(InitializeSteps) - 1) :
                Before(InitializeSteps[n], InitializeSteps[n + 1])
          /\ Succeeds("commit") # {}
    /\ disp.m_display_initialized =>
          (d_last.was_initialized \/ d_last.op = "initialize")
    /\ (d_last.op = "scanout" /\ ~d_last.was_initialized) =>
          ~d_last.ret /\ d_last.reqs = <<>> /\ ~disp.m_display_initialized
    /\ (d_last.op = "initialize" /\ d_last.was_initialized) =>
          d_last.ret /\ d_last.reqs = <<>> /\ disp.m_display_initialized

\* C34: an initialize() repeated on an initialized session that has
\* completed a flip
C34_Witness ==
    /\ d_last.op = "initialize" /\ d_last.was_initialized
    /\ disp.m_frame.count > 0

\* C34: a scanout() rejected on a session that is not initialized although
\* an initialize() already created the pattern
C34_WitnessRejected ==
    /\ d_last.op = "scanout" /\ ~d_last.was_initialized
    /\ disp.m_testPatern_FbId > 0

(***************************************************************************)
(* C35: every failure return of mapBuffers(), including the failure of the *)
(* per-buffer query at a buffer index k > 0 after earlier buffers were     *)
(* mapped, leaves no plane mapped.                                         *)
(***************************************************************************)
C35_FailureLeavesNothingMapped == c_run.failed = "mapBuffers" => v4l.mapped = {}

\* C35, side lemma: a query that fails for the first buffer leaves nothing
\* mapped, nothing having been mapped yet
C35_FirstQueryFails ==
    (c_run.failed = "mapBuffers" /\ c_run.env.fail = <<"querybuf", 1, 0>>) => v4l.mapped = {}

\* C35, side lemma: a query that fails for a later buffer returns without
\* one munmap, every plane of the earlier buffers still mapped
C35_LaterQueryKeepsAll ==
    (c_run.failed = "mapBuffers" /\ c_run.env.fail[1] = "querybuf" /\ c_run.env.fail[2] > 1) =>
        /\ ~HasReq(c_run.reqs, "munmap")
        /\ Cardinality(v4l.mapped) >= c_run.env.fail[2] - 1

(***************************************************************************)
(* C36: a framebuffer is never deregistered while it is the target of an   *)
(* accepted plane commit whose completion callback has not been delivered, *)
(* nor while it is bound to the plane: scanout() in buffer-import mode     *)
(* does not remove the framebuffer it has just submitted.                  *)
(***************************************************************************)
C36_NotRemovedWhileInFlight ==
    \A i \in Succeeds("commit"), j \in Issued("rmfb") :
        d_last.reqs[j].fb = d_last.reqs[i].fb => j < i

\* C36, side lemma: in test mode no call removes the framebuffer of a commit
\* it had accepted
C36_TestMode == disp.testing_display => C36_NotRemovedWhileInFlight

\* C36, side lemma: every accepted scanout() of import mode removes the
\* framebuffer of its commit before returning, the flip still pending
C36_ImportAlwaysRemoves ==
    (d_last.op = "scanout" /\ d_last.ret /\ ~disp.testing_display) =>
        /\ disp.m_frame.flip_pending
        /\ \A i \in Succeeds("commit") :
              /\ \E j \in IssuedFor("rmfb", d_last.reqs[i].fb) : i < j
              /\ d_last.reqs[i].fb \notin drm.fbs

(***************************************************************************)
(* C37: in the scheduling loop, when the kernel delivers one completion    *)
(* event for every accepted commit and the readiness wait then returns,    *)
(* every pending flip is eventually cleared and a further scanout is       *)
(* eventually submitted; the loop never waits with no commit outstanding,  *)
(* from the state initialize() leaves.  The loop ends on SIGINT and on a   *)
(* failed handleEvent() or scanout().                                      *)
(***************************************************************************)
InLoop == pc \in {"loop", "handle", "check"}

Submitted == d_last.op = "scanout" /\ d_last.ret

C37_LoopKeepsFlipping ==
    /\ [](pc = "loop" => (disp.m_frame.flip_pending /\ Outstanding(drm) = 1))
    /\ (InLoop /\ disp.m_frame.flip_pending) ~> (~disp.m_frame.flip_pending \/ pc = "exit")
    /\ (InLoop /\ ~disp.m_frame.flip_pending) ~> (Submitted \/ pc = "exit")
    /\ (pc = "loop") ~> (pc = "handle" \/ pc = "exit")

\* C37: the loop waits again after the scanout that followed the
\* completion of an earlier scanout's flip
C37_Witness ==
    /\ pc = "loop"
    /\ Submitted
    /\ disp.m_frame.count >= 2
    /\ disp.m_frame.flip_pending

(***************************************************************************)
(* C38: after any sequence of initialize() calls, including calls repeated *)
(* after a failed attempt at any step, the session holds at most one       *)
(* handle of each kind, and every handle obtained in any attempt is either *)
(* already released or released by the destructor.  Stated for the         *)
(* connector handles: at most one is allocated at any time, none after the *)
(* destructor.                                                             *)
(***************************************************************************)
C38_NoOrphanedHandle ==
    /\ Cardinality(kms.o.conns_out) <= 1
    /\ kms.pc = "gone" => kms.o.conns_out = {}

\* C38, side lemma: a session whose initialize() ran findConnector once
\* holds one connector handle at most and its destructor frees it
C38_SingleAttempt == kms.o.connector_calls <= 1 => C38_NoOrphanedHandle

\* C38, side lemma: the handles left allocated are the ones m_drmConnector
\* no longer points to, one for every earlier findConnector that succeeded
C38_OrphansAreOverwritten ==
    /\ \A h \in kms.o.conns_out :
          h = kms.o.m_drmConnector \/ h[1] < kms.o.connector_calls
    /\ kms.pc = "gone" => \A h \in kms.o.conns_out : h[1] < kms.o.connector_calls

(***************************************************************************)
(* C39: whenever start() returns success, at least one capture buffer has  *)
(* been mapped and queued to the driver before stream-on was issued,       *)
(* whatever buffer count the driver returned from request-buffers.         *)
(***************************************************************************)
C39_StreamsWithABuffer ==
    c_run.ret = "true" =>
        /\ v4l.mapped # {}
        /\ Len(v4l.queued) >= 1
        /\ \E i \in Asked("mmap"), j \in Asked("QBUF"), k \in Asked("STREAMON") : i < j /\ j < k

\* C39, side lemma: the claim holds whenever the driver granted one buffer
\* or more
C39_WhenGranted == cap.buf_count >= 1 => C39_StreamsWithABuffer

\* C39, side lemma: a start() that succeeds on a grant of zero buffers has
\* asked for stream-on without one query, mapping or queuing
C39_ZeroGranted ==
    (c_run.ret = "true" /\ cap.buf_count = 0) =>
        /\ Asked("STREAMON") # {}
        /\ Asked("QUERYBUF") = {} /\ Asked("mmap") = {} /\ Asked("QBUF") = {}
        /\ v4l.streaming

(***************************************************************************)
(* C40: over any sequence of start() calls on one capture session,         *)
(* including a start() repeated after a start() whose mapBuffers failed,   *)
(* the pool never unmaps an address it does not currently hold mapped: no  *)
(* plane address is unmapped twice and the recorded addresses never refer  *)
(* to a released mapping when the unwind runs.                             *)
(***************************************************************************)
C40_UnmapsOnlyHeld == v4l.stray = {}

\* C40, side lemma: the first start() of a session unmaps only what it
\* mapped itself
C40_FirstStart == c_run.starts <= 1 => v4l.stray = {}

\* C40, side lemma: an address unmapped while not held was recorded by an
\* earlier start(), whose unwind had released it and left it in the pool
C40_StrayIsStale ==
    \A a \in v4l.stray :
        /\ c_run.starts > 1
        /\ a \notin v4l.mapped
        /\ \E i \in 1..Len(cap.m_capture_buf) :
              \E p \in 1..Len(cap.m_capture_buf[i]) : cap.m_capture_buf[i][p] = a

=============================================================================
